---- MODULE Spec2Model ----
(***************************************************************************)
(* A model of contextplus' embedding, indexing and hybrid-search core.     *)
(*                                                                         *)
(* The module holds several state machines, one per subsystem.  Each has   *)
(* its own variables, its own Init and Next, and its own specification;    *)
(* a specification pins the variables of the other subsystems.             *)
(*                                                                         *)
(*   SpecEmbed   fetchEmbedding / embedBatchAdaptive / embedSingleAdaptive *)
(*   SpecRank    SearchIndex.search                                        *)
(*   SpecTrack   startEmbeddingTracker                                     *)
(*   SpecTrackLive  the same, with timers that fire and refreshes that end *)
(*   Spec        the tools of the server, overlapping                      *)
(*   SpecIndex   the tools of the server, one after the other              *)
(*   SpecCall    rankCallSites                                             *)
(*   SpecCluster spectralCluster and buildHierarchy                        *)
(*   SpecLoad    SearchIndex.index for each cache file it may find         *)
(*   SpecShadow  createRestorePoint, restorePoint and proposeCommit        *)
(*   SpecManifest  createRestorePoint, call after call, near the cap       *)
(*   SpecIdent   semanticIdentifierSearch                                  *)
(*   SpecLive    index builds, tracker refreshes and call-site rankings    *)
(*               on the two cache files, overlapping                       *)
(*   SpecLiveClock  index builds and tracker refreshes while time passes    *)
(*   SpecLiveSeq the same as SpecLive, one after the other                 *)
(***************************************************************************)
EXTENDS Integers, Sequences, FiniteSets, TLC

VARIABLES
    \* ---- fetchEmbedding (core/embeddings.ts) ----
    inputs,        \* the texts handed to fetchEmbedding
    batchSize,     \* getEmbeddingBatchSize()
    cursor,        \* loop variable i of fetchEmbedding
    embeddings,    \* the result array being filled
    todo,          \* pending embedBatchAdaptive calls, leftmost first
    single,        \* the running embedSingleAdaptive call, if any
    fstatus,       \* "start" | "running" | "done" | "failed"
    ferror,        \* the error fetchEmbedding rejected with
    bisected,      \* history: some batch was bisected during this call
    \* ---- SearchIndex.search (core/embeddings.ts) ----
    sDocs,         \* the indexed documents with their vectors, as search sees them
    sQuery,        \* the query
    sOptions,      \* optionsOrTopK as passed by the caller
    sResults,      \* the SearchResult[] the call resolved to
    spc,           \* "ready" | "embedding" | "done" | "failed"
    \* ---- startEmbeddingTracker (core/embedding-tracker.ts) ----
    pendingFiles,    \* the pending set, in insertion order
    maxFilesPerTick, \* clampFilesPerTick(options.maxFilesPerTick)
    debounceMs,      \* clampDebounceMs(options.debounceMs)
    timer,           \* "none" | "debounce" (debounceMs) | "retry" (100 ms)
    timerLeft,       \* milliseconds until the timer fires
    sinceEvent,      \* history: milliseconds since the last accepted change event
    isProcessing,    \* the busy flag
    closed,          \* the tracker was stopped
    flush,           \* the flushPending call awaiting Promise.all, if any
    flushCount,      \* the name of the flush started last
    refreshes,       \* refresh calls that have not settled: [kind, flush]
    \* ---- the MCP server: semantic_code_search, propose_commit, undo_change ----
    files,           \* the embedding text of each file on disk
    diskCache,       \* .mcp_data/embeddings-cache.json
    cachedIndex,     \* tools/semantic-search.ts: cachedIndex
    cachedRootDir,   \* tools/semantic-search.ts: cachedRootDir
    lastIndexTime,   \* tools/semantic-search.ts: lastIndexTime
    now,             \* Date.now()
    restorePoints,   \* the backups createRestorePoint has taken
    client,          \* the tool call each client has in flight, and its locals
    opsLeft,         \* tool calls that may still start
    writeCount,      \* history: writes made to each file
    doneCount,       \* history: writes to each file by completed mutating calls
    lastBuilt,       \* history: the documents of the last completed index build
    \* ---- rankCallSites (tools/semantic-identifiers.ts) ----
    csLines,         \* fileLines, scanned for call sites of the symbol
    csLimit,         \* limit
    csCache,         \* the identifier cache handed in, by line
    csSampled,       \* sampled / keyedCandidates
    csUncached,      \* uncached
    csCursor,        \* loop variable i of the embedding loop
    csEmbedded,      \* history: the lines whose text was sent to the provider
    csOut,           \* the value returned
    cspc,            \* "ready" | "embedding" | "done" | "failed"
    \* ---- spectralCluster (core/clustering.ts) ----
    scN,             \* vectors.length
    scMaxClusters,   \* maxClusters
    scEigenvalues,   \* eigen.realEigenvalues
    scRows,          \* the rows of the eigenvector matrix, first two columns
    scClusters,      \* the clusters returned
    scpc,            \* "ready" | "done"
    \* ---- buildHierarchy (tools/semantic-navigate.ts) ----
    hFiles,          \* files of the outermost call, by number
    hMaxClusters,    \* maxClusters
    hMaxDepth,       \* maxDepth
    hSpectrum,       \* the kind of decomposition the vectors of this run give
    hTodo,           \* the calls of buildHierarchy still to make, next first
    hNodes,          \* the nodes built
    hLabeling,       \* childMetas while labelSiblingClusters is awaited
    hpc,             \* "idle" | "building" | "labeling" | "done"
    \* ---- SearchIndex.index with loadEmbeddingCache (core/embeddings.ts) ----
    lcFile,          \* .mcp_data/embeddings-cache.json as it is found
    lcDocs,          \* docs
    lcCache,         \* the value loadCache resolved to
    lcVectors,       \* this.vectors
    lcUncached,      \* uncached, as positions in docs
    lcB,             \* loop variable b
    lcSaved,         \* what saveCache wrote, if it was called
    lcpc,            \* "load" | "split" | "embed" | "save" | "done" | "rejected"
    \* ---- restore points (git/shadow.ts) and proposeCommit ----
    rpFiles,         \* the content of each file on disk, or that it is absent
    rpManifest,      \* .mcp_data/restore-points.json
    rpBackups,       \* .mcp_data/backups/<id>/<name>: id, name and content
    rpCall,          \* the call each caller has in flight, and its locals
    rpNextId,        \* the ids createRestorePoint has drawn so far
    rpCallsLeft,     \* calls and file changes that may still start
    rpSnap,          \* history: by id, each file as it was when the point read it
    \* ---- semanticIdentifierSearch (tools/semantic-identifiers.ts) ----
    idDocs,          \* the identifier index: kind, cosine to the query, keyword coverage
    idOptions,       \* topK, semanticWeight, keywordWeight, includeKinds as passed
    idRanked,        \* the identifiers the search lists, in order
    idpc,            \* "ready" | "done" | "none indexed" | "none of kind" | "failed"
    \* ---- index builds and tracker refreshes on the two disk caches ----
    lvRawPath,       \* the relative path of the one source file, as the OS gives it
    lvContent,       \* what the file holds: a version of its source, or absent
    lvDisk,          \* the two cache files: key -> entry
    lvIndex,         \* cachedIndex, cachedRootDir and lastIndexTime / cachedAt of each level
    lvNow,           \* Date.now()
    lvBuild,         \* the index build in progress at each level, and its locals
    lvRefresh,       \* the refresh in progress at each level, and its locals
    lvCalls,         \* the identifier search that is ranking call sites, and its locals
    lvFlush,         \* the tracker's flushPending: "idle" | "running"
    lvLeft,          \* accesses, flushes, rankings, file changes and ticks that may still come
    lvGen,           \* history: index builds installed so far
    lvSeen,          \* history: the build each level's index came from when the flush started
    lvAccess,        \* history: the last access to each level's index
    lvRefreshed,     \* history: the content the last completed refresh of each level read
    lvEmbedded       \* history: what the build of each level since that refresh had to embed

embVars == <<inputs, batchSize, cursor, embeddings, todo, single, fstatus, ferror, bisected>>
rankVars == <<sDocs, sQuery, sOptions, sResults, spc>>
trackVars == <<pendingFiles, maxFilesPerTick, debounceMs, timer, timerLeft, sinceEvent,
               isProcessing, closed, flush, flushCount, refreshes>>
serverVars == <<files, diskCache, cachedIndex, cachedRootDir, lastIndexTime, now,
                restorePoints, client, opsLeft, writeCount, doneCount, lastBuilt>>
callVars == <<csLines, csLimit, csCache, csSampled, csUncached, csCursor, csEmbedded,
              csOut, cspc>>
clusterVars == <<scN, scMaxClusters, scEigenvalues, scRows, scClusters, scpc>>
hierVars == <<hFiles, hMaxClusters, hMaxDepth, hSpectrum, hTodo, hNodes, hLabeling, hpc>>
loadVars == <<lcFile, lcDocs, lcCache, lcVectors, lcUncached, lcB, lcSaved, lcpc>>
shadowVars == <<rpFiles, rpManifest, rpBackups, rpCall, rpNextId, rpCallsLeft, rpSnap>>
identVars == <<idDocs, idOptions, idRanked, idpc>>
liveVars == <<lvRawPath, lvContent, lvDisk, lvIndex, lvNow, lvBuild, lvRefresh, lvCalls, lvFlush, lvLeft, lvGen, lvSeen, lvAccess, lvRefreshed, lvEmbedded>>
vars == <<embVars, rankVars, trackVars, serverVars, callVars, clusterVars, hierVars, loadVars, shadowVars, identVars, liveVars>>

\* What the actions of one subsystem leave alone.
notEmb == <<rankVars, trackVars, serverVars, callVars, clusterVars, hierVars, loadVars, shadowVars, identVars, liveVars>>
notRank == <<embVars, trackVars, serverVars, callVars, clusterVars, hierVars, loadVars, shadowVars, identVars, liveVars>>
notTrack == <<embVars, rankVars, serverVars, callVars, clusterVars, hierVars, loadVars, shadowVars, identVars, liveVars>>
notServer == <<embVars, rankVars, trackVars, callVars, clusterVars, hierVars, loadVars, shadowVars, identVars, liveVars>>
notCall == <<embVars, rankVars, trackVars, serverVars, clusterVars, hierVars, loadVars, shadowVars, identVars, liveVars>>
notCluster == <<embVars, rankVars, trackVars, serverVars, callVars, hierVars, loadVars, shadowVars, identVars, liveVars>>
notHier == <<embVars, rankVars, trackVars, serverVars, callVars, clusterVars, loadVars, shadowVars, identVars, liveVars>>
notLoad == <<embVars, rankVars, trackVars, serverVars, callVars, clusterVars, hierVars, shadowVars, identVars, liveVars>>
notShadow == <<embVars, rankVars, trackVars, serverVars, callVars, clusterVars, hierVars, loadVars, identVars, liveVars>>
notIdent == <<embVars, rankVars, trackVars, serverVars, callVars, clusterVars, hierVars, loadVars, shadowVars, liveVars>>
notLive == <<embVars, rankVars, trackVars, serverVars, callVars, clusterVars, hierVars, loadVars, shadowVars, identVars>>

(***************************************************************************)
(* Small helpers                                                           *)
(***************************************************************************)
Min(a, b) == IF a <= b THEN a ELSE b
Max(a, b) == IF a >= b THEN a ELSE b

\* Array.prototype.slice(from, to) with 0-based half-open bounds.
Slice(s, from, to) == SubSeq(s, from + 1, Min(to, Len(s)))

(***************************************************************************)
(* Embedding provider adapter                                              *)
(***************************************************************************)
MIN_EMBED_BATCH_SIZE == 5
MAX_EMBED_BATCH_SIZE == 10
DEFAULT_EMBED_BATCH_SIZE == 8
MIN_EMBED_INPUT_CHARS == 256
MAX_SINGLE_INPUT_RETRIES == 8

\* Bounds of the embedding model.
MaxTexts == 6

\* A text is its identity (which input it is a prefix of) and its length.
\* 200 cannot be shrunk, 300 shrinks once to the floor, 4096 is still above
\* the floor after MAX_SINGLE_INPUT_RETRIES + 1 shrinks.
ShortLens == {200, 300}
LongLen == 16 * MIN_EMBED_INPUT_CHARS

\* The inputs of one call: short texts, and at most one long text (at
\* position longAt, 0 for none).
InputTexts(n, lens, longAt) ==
    [k \in 1..n |-> [id |-> k, len |-> IF k = longAt THEN LongLen ELSE lens[k]]]
NoText == [id |-> 0, len |-> 0]

\* CONTEXTPLUS_EMBED_BATCH_SIZE: unset (0) or an integer.
RequestedBatchSizes == {0, 3}

ToIntegerOr(value, fallback) == IF value = 0 THEN fallback ELSE value

GetEmbeddingBatchSize(requested) ==
    Min(MAX_EMBED_BATCH_SIZE,
        Max(MIN_EMBED_BATCH_SIZE, ToIntegerOr(requested, DEFAULT_EMBED_BATCH_SIZE)))

\* Math.floor(length * SINGLE_INPUT_SHRINK_FACTOR), the factor being 0.75.
ShrunkLength(len) == (len * 3) \div 4

ShrinkEmbeddingInput(input) ==
    IF input.len <= MIN_EMBED_INPUT_CHARS THEN input
    ELSE LET nextLength == Max(MIN_EMBED_INPUT_CHARS, ShrunkLength(input.len))
         IN  IF nextLength >= input.len
             THEN [input EXCEPT !.len = input.len - 1]
             ELSE [input EXCEPT !.len = nextLength]

\* The provider is a deterministic function of the text it is given.
Embed(text) == <<text.id, text.len>>

EmbedAll(batch) == [k \in 1..Len(batch) |-> Embed(batch[k])]

\* The attempt counter has run past the for-loop's bound.
RetriesExhaustedOffByOne(attempt) == attempt >= MAX_SINGLE_INPUT_RETRIES
RetriesExhausted(attempt) == attempt > MAX_SINGLE_INPUT_RETRIES

\* The two recursive calls of embedBatchAdaptive, in the order their results
\* are concatenated.
BisectSwapped(batch) ==
    LET middle == (Len(batch) + 1) \div 2
    IN  <<Slice(batch, middle, Len(batch)), Slice(batch, 0, middle)>>
Bisect(batch) ==
    LET middle == (Len(batch) + 1) \div 2
    IN  <<Slice(batch, 0, middle), Slice(batch, middle, Len(batch))>>

NoSingle == [active |-> FALSE, candidate |-> NoText, attempt |-> 0]
\* ferror: the kind of error, and for a context-length failure of a single
\* input the index of the rejected attempt (0 is the input as given, k the
\* k-th shrunk retry) and the length of the rejected candidate.
NoError == [kind |-> "none", attempt |-> 0, len |-> 0]

EmbInit ==
    /\ \E n \in 0..MaxTexts :
         \E lens \in [1..n -> ShortLens], longAt \in 0..n :
            inputs = InputTexts(n, lens, longAt)
    /\ \E requested \in RequestedBatchSizes :
         batchSize = GetEmbeddingBatchSize(requested)
    /\ cursor = 0
    /\ embeddings = <<>>
    /\ todo = <<>>
    /\ single = NoSingle
    /\ fstatus = "start"
    /\ ferror = NoError
    /\ bisected = FALSE

\* The adapter at rest, for the specifications of the other subsystems.
EmbIdle ==
    /\ inputs = <<>>
    /\ batchSize = DEFAULT_EMBED_BATCH_SIZE
    /\ cursor = 0
    /\ embeddings = <<>>
    /\ todo = <<>>
    /\ single = NoSingle
    /\ fstatus = "done"
    /\ ferror = NoError
    /\ bisected = FALSE

\* if (inputs.length === 0) return [];
FetchBegin ==
    /\ UNCHANGED notEmb
    /\ fstatus = "start"
    /\ fstatus' = IF Len(inputs) = 0 THEN "done" ELSE "running"
    /\ UNCHANGED <<inputs, batchSize, cursor, embeddings, todo, single, ferror, bisected>>

\* One iteration of fetchEmbedding's loop: slice the next batch and call
\* embedBatchAdaptive on it.
FetchNextBatch ==
    /\ UNCHANGED notEmb
    /\ fstatus = "running"
    /\ todo = <<>>
    /\ cursor < Len(inputs)
    /\ todo' = <<Slice(inputs, cursor, cursor + batchSize)>>
    /\ cursor' = cursor + batchSize
    /\ UNCHANGED <<inputs, batchSize, embeddings, single, fstatus, ferror, bisected>>

\* The loop has run out: return embeddings.
FetchReturn ==
    /\ UNCHANGED notEmb
    /\ fstatus = "running"
    /\ todo = <<>>
    /\ cursor >= Len(inputs)
    /\ fstatus' = "done"
    /\ UNCHANGED <<inputs, batchSize, cursor, embeddings, todo, single, ferror, bisected>>

\* ollama.embed answers the leftmost pending batch with one vector per input.
BatchOk ==
    /\ UNCHANGED notEmb
    /\ fstatus = "running"
    /\ todo # <<>>
    /\ ~single.active
    /\ embeddings' = embeddings \o EmbedAll(Head(todo))
    /\ todo' = Tail(todo)
    /\ UNCHANGED <<inputs, batchSize, cursor, single, fstatus, ferror, bisected>>

\* ollama.embed rejects the leftmost pending batch with a context-length
\* error: a batch of one goes to embedSingleAdaptive, a longer one is bisected.
BatchContextError ==
    /\ UNCHANGED notEmb
    /\ fstatus = "running"
    /\ todo # <<>>
    /\ ~single.active
    /\ LET batch == Head(todo)
       IN  IF Len(batch) = 1
           THEN /\ single' = [active |-> TRUE, candidate |-> batch[1], attempt |-> 0]
                /\ UNCHANGED <<todo, bisected>>
           ELSE /\ todo' = Bisect(batch) \o Tail(todo)
                /\ bisected' = TRUE
                /\ UNCHANGED single
    /\ UNCHANGED <<inputs, batchSize, cursor, embeddings, fstatus, ferror>>

\* Any other failure of the batch call (provider down, response size
\* mismatch) propagates at once.
BatchOtherError ==
    /\ UNCHANGED notEmb
    /\ fstatus = "running"
    /\ todo # <<>>
    /\ ~single.active
    /\ fstatus' = "failed"
    /\ ferror' = [kind |-> "other", attempt |-> 0, len |-> 0]
    /\ UNCHANGED <<inputs, batchSize, cursor, embeddings, todo, single, bisected>>

\* embedSingleAdaptive: the provider accepts the current candidate.
SingleOk ==
    /\ UNCHANGED notEmb
    /\ fstatus = "running"
    /\ single.active
    /\ embeddings' = Append(embeddings, Embed(single.candidate))
    /\ todo' = Tail(todo)
    /\ single' = NoSingle
    /\ UNCHANGED <<inputs, batchSize, cursor, fstatus, ferror, bisected>>

\* embedSingleAdaptive: the provider rejects the current candidate with a
\* context-length error.
SingleContextError ==
    /\ UNCHANGED notEmb
    /\ fstatus = "running"
    /\ single.active
    /\ LET nextCandidate == ShrinkEmbeddingInput(single.candidate)
       IN  IF nextCandidate.len = single.candidate.len
           THEN /\ fstatus' = "failed"
                /\ ferror' = [kind |-> "context", attempt |-> single.attempt,
                              len |-> single.candidate.len]
                /\ UNCHANGED single
           ELSE IF RetriesExhausted(single.attempt + 1)
           THEN /\ fstatus' = "failed"
                /\ ferror' = [kind |-> "exhausted", attempt |-> single.attempt,
                              len |-> single.candidate.len]
                /\ UNCHANGED single
           ELSE /\ single' = [single EXCEPT !.candidate = nextCandidate,
                                            !.attempt = single.attempt + 1]
                /\ UNCHANGED <<fstatus, ferror>>
    /\ UNCHANGED <<inputs, batchSize, cursor, embeddings, todo, bisected>>

\* embedSingleAdaptive: any other error is rethrown.
SingleOtherError ==
    /\ UNCHANGED notEmb
    /\ fstatus = "running"
    /\ single.active
    /\ fstatus' = "failed"
    /\ ferror' = [kind |-> "other", attempt |-> single.attempt, len |-> single.candidate.len]
    /\ UNCHANGED <<inputs, batchSize, cursor, embeddings, todo, single, bisected>>

EmbNext ==
    \/ FetchBegin
    \/ FetchNextBatch
    \/ FetchReturn
    \/ BatchOk
    \/ BatchContextError
    \/ BatchOtherError
    \/ SingleOk
    \/ SingleContextError
    \/ SingleOtherError


(***************************************************************************)
(* Claims about fetchEmbedding                                             *)
(***************************************************************************)
\* The candidates embedSingleAdaptive can hand to the provider for a text:
\* the text and its first n successive shrinks.
RECURSIVE ShrinkChain(_, _)
ShrinkChain(text, n) ==
    IF n = 0 THEN {text}
    ELSE {text} \cup ShrinkChain(ShrinkEmbeddingInput(text), n - 1)

\* C1 as stated: when fetchEmbedding returns, it returns one vector per input
\* text and the i-th vector is the embedding of the i-th text.
C1_EmbeddingOfEachText ==
    fstatus = "done" =>
        /\ Len(embeddings) = Len(inputs)
        /\ \A k \in 1..Len(inputs) : embeddings[k] = Embed(inputs[k])

\* C1 amended: when fetchEmbedding returns, it returns one vector per input
\* text and the i-th vector is the embedding of the i-th text or of one of its
\* shrunk prefixes (the text itself when it is no longer than
\* MIN_EMBED_INPUT_CHARS), whatever the batch size and the failures were.
C1_OrderPreserved ==
    fstatus = "done" =>
        /\ Len(embeddings) = Len(inputs)
        /\ \A k \in 1..Len(inputs) :
              \E t \in ShrinkChain(inputs[k], MAX_SINGLE_INPUT_RETRIES) :
                 embeddings[k] = Embed(t)

\* A call over more texts than one batch holds returned after a bisection and
\* after shrinking one input.
C1_Witness ==
    /\ fstatus = "done"
    /\ bisected
    /\ Len(inputs) > batchSize
    /\ \E k \in 1..Len(inputs) : embeddings[k] # Embed(inputs[k])

\* C6 as stated: a context-length failure of a single input is reported only
\* after MAX_SINGLE_INPUT_RETRIES shrunk retries have been rejected.
C6_FailsOnlyAfterBudget ==
    (fstatus = "failed" /\ ferror.kind \in {"context", "exhausted"}) =>
        ferror.attempt >= MAX_SINGLE_INPUT_RETRIES

\* C6 amended: a context-length failure of a single input is reported only
\* after MAX_SINGLE_INPUT_RETRIES shrunk retries have been rejected, or when
\* the rejected input is no longer than MIN_EMBED_INPUT_CHARS and so cannot
\* be shrunk any further.
C6_FailsAfterBudgetOrAtFloor ==
    (fstatus = "failed" /\ ferror.kind \in {"context", "exhausted"}) =>
        \/ ferror.attempt >= MAX_SINGLE_INPUT_RETRIES
        \/ ferror.len <= MIN_EMBED_INPUT_CHARS

\* The provider rejected the input and all its shrunk retries while the
\* candidate was still above the floor.
C6_Witness ==
    /\ fstatus = "failed"
    /\ ferror.kind = "exhausted"
    /\ ferror.attempt = MAX_SINGLE_INPUT_RETRIES
    /\ ferror.len > MIN_EMBED_INPUT_CHARS

(***************************************************************************)
(* Hybrid ranker: SearchIndex.search                                       *)
(*                                                                         *)
(* Scores are exact: a score x is the integer x * ScoreUnit.  The pools    *)
(* below are chosen so that every division of the code is exact.           *)
(* Weights are in hundredths, topK in tenths.  A missing option is {}, a   *)
(* given one {value}.                                                      *)
(***************************************************************************)
ScoreUnit == 6 * 100000

\* Bound of the ranking model: documents in the index.
MaxDocs == 3

Undefined == {}
ValueOf(option) == CHOOSE v \in option : TRUE

Clamp01(value) ==
    IF value <= 0 THEN 0
    ELSE IF value >= ScoreUnit THEN ScoreUnit
    ELSE value

\* A variant that does not take a value above 1 for a percentage.
NormalizeThresholdNoPercent(value, fallback) ==
    IF value = Undefined THEN fallback ELSE Clamp01(ValueOf(value))

NormalizeThreshold(value, fallback) ==
    IF value = Undefined THEN fallback
    ELSE IF ValueOf(value) > ScoreUnit THEN Clamp01(ValueOf(value) \div 100)
    ELSE Clamp01(ValueOf(value))

NormalizeWeight(value, fallback) ==
    IF value = Undefined \/ ValueOf(value) < 0 THEN fallback ELSE ValueOf(value)

\* Math.max(1, Math.floor(value)), value in tenths.
NormalizeTopK(value, fallback) ==
    IF value = Undefined THEN fallback ELSE Max(1, ValueOf(value) \div 10)

ResolveSearchOptions(raw) ==
    [ topK                 |-> NormalizeTopK(raw.topK, 5),
      semanticWeight       |-> NormalizeWeight(raw.semanticWeight, 72),
      keywordWeight        |-> NormalizeWeight(raw.keywordWeight, 28),
      minSemanticScore     |-> NormalizeThreshold(raw.minSemanticScore, 0),
      minKeywordScore      |-> NormalizeThreshold(raw.minKeywordScore, 0),
      minCombinedScore     |-> NormalizeThreshold(raw.minCombinedScore, ScoreUnit \div 10),
      requireKeywordMatch  |-> IF raw.requireKeywordMatch = Undefined THEN FALSE
                               ELSE ValueOf(raw.requireKeywordMatch),
      requireSemanticMatch |-> IF raw.requireSemanticMatch = Undefined THEN FALSE
                               ELSE ValueOf(raw.requireSemanticMatch) ]

GetTermCoverage(queryTerms, docTerms) ==
    IF Cardinality(queryTerms) = 0 THEN 0
    ELSE (Cardinality(queryTerms \cap docTerms) * ScoreUnit) \div Cardinality(queryTerms)

\* A symbol is the set of terms splitCamelCase gives for its name.
GetMatchedSymbols(symbols, queryTerms) ==
    IF Cardinality(queryTerms) = 0 THEN {}
    ELSE {symbol \in symbols : symbol \cap queryTerms # {}}

\* The terms of `${doc.path} ${doc.header} ${doc.symbols.join(" ")} ${doc.content}`.
DocTerms(doc) == doc.words \cup UNION doc.symbols

ComputeKeywordScore(queryTerms, doc, matchedSymbols) ==
    IF Cardinality(queryTerms) = 0 THEN 0
    ELSE LET phraseBoost    == IF doc.phrase THEN (15 * ScoreUnit) \div 100 ELSE 0
             symbolTerms    == UNION matchedSymbols
             termCoverage   == GetTermCoverage(queryTerms, DocTerms(doc))
             symbolCoverage == GetTermCoverage(queryTerms, symbolTerms)
         IN  Clamp01((65 * termCoverage + 20 * symbolCoverage) \div 100 + phraseBoost)

ComputeCombinedScore(semanticScore, keywordScore, options) ==
    LET semanticComponent == Max(semanticScore, 0)
        totalWeight       == options.semanticWeight + options.keywordWeight
    IN  IF totalWeight <= 0 THEN semanticComponent
        ELSE Clamp01((options.semanticWeight * semanticComponent
                        + options.keywordWeight * keywordScore) \div totalWeight)

\* Math.round(score * 1000) / 10, in tenths of a percent.
RoundPercent(score) == (2 * score * 1000 + ScoreUnit) \div (2 * ScoreUnit)

\* The entry search() computes for document idx.
ScoreEntry(docs, idx, queryTerms, options) ==
    LET doc           == docs[idx]
        semanticScore == doc.cosine
        keywordScore  == ComputeKeywordScore(queryTerms, doc,
                                             GetMatchedSymbols(doc.symbols, queryTerms))
    IN  [ idx           |-> idx,
          score         |-> ComputeCombinedScore(semanticScore, keywordScore, options),
          semanticScore |-> semanticScore,
          keywordScore  |-> keywordScore ]

\* The five `continue` filters of the scoring loop.
PassesFiltersNoKeywordMinimum(entry, options) ==
    /\ ~(options.requireSemanticMatch /\ entry.semanticScore <= 0)
    /\ ~(options.requireKeywordMatch /\ entry.keywordScore <= 0)
    /\ ~(Max(entry.semanticScore, 0) < options.minSemanticScore)
    /\ ~(entry.score < options.minCombinedScore)
PassesFilters(entry, options) ==
    /\ ~(options.requireSemanticMatch /\ entry.semanticScore <= 0)
    /\ ~(options.requireKeywordMatch /\ entry.keywordScore <= 0)
    /\ ~(Max(entry.semanticScore, 0) < options.minSemanticScore)
    /\ ~(entry.keywordScore < options.minKeywordScore)
    /\ ~(entry.score < options.minCombinedScore)

\* The comparator handed to Array.prototype.sort:
\* b.score - a.score || b.keywordScore - a.keywordScore || b.semanticScore - a.semanticScore
CompareSemanticFirst(a, b) ==
    IF b.score - a.score # 0 THEN b.score - a.score
    ELSE IF b.semanticScore - a.semanticScore # 0 THEN b.semanticScore - a.semanticScore
    ELSE b.keywordScore - a.keywordScore
Compare(a, b) ==
    IF b.score - a.score # 0 THEN b.score - a.score
    ELSE IF b.keywordScore - a.keywordScore # 0 THEN b.keywordScore - a.keywordScore
    ELSE b.semanticScore - a.semanticScore

\* Array.prototype.sort is stable: an entry goes before the first sorted entry
\* the comparator puts it strictly before.
RECURSIVE InsertSorted(_, _)
InsertSorted(sorted, entry) ==
    IF sorted = <<>> THEN <<entry>>
    ELSE IF Compare(entry, Head(sorted)) < 0 THEN <<entry>> \o sorted
    ELSE <<Head(sorted)>> \o InsertSorted(Tail(sorted), entry)

RECURSIVE SortScores(_)
SortScores(scores) ==
    IF scores = <<>> THEN <<>>
    ELSE InsertSorted(SortScores(SubSeq(scores, 1, Len(scores) - 1)), scores[Len(scores)])

\* The body of search() once the query is embedded.
SearchResults(docs, queryTerms, rawOptions) ==
    LET options == ResolveSearchOptions(rawOptions)
        all     == [idx \in 1..Len(docs) |-> ScoreEntry(docs, idx, queryTerms, options)]
        scores  == SelectSeq(all, LAMBDA entry : PassesFilters(entry, options))
        top     == Slice(SortScores(scores), 0, options.topK)
    IN  [k \in 1..Len(top) |->
            [ idx           |-> top[k].idx,
              score         |-> RoundPercent(top[k].score),
              semanticScore |-> RoundPercent(Max(top[k].semanticScore, 0)),
              keywordScore  |-> RoundPercent(top[k].keywordScore) ]]

\* ---- inputs ----
\* The terms of the query, after splitCamelCase.
QueryPool == {{}, {"auth"}, {"auth", "token"}}

\* Indexed documents: the cosine of their vector with the query vector, the
\* terms of path, header and content, the symbols, and whether the document
\* text contains the lowercased query.  With the default weights the first two
\* tie on the combined score for the query {auth, token}; the next two tie on
\* combined and keyword score.
DocPool ==
    { [cosine |-> 300000,  words |-> {"auth", "token"}, symbols |-> {},           phrase |-> TRUE],
      [cosine |-> 335000,  words |-> {"auth", "token"}, symbols |-> {},           phrase |-> FALSE],
      [cosine |-> -120000, words |-> {"login"},         symbols |-> {{"auth"}},   phrase |-> FALSE],
      [cosine |-> -60000,  words |-> {"login"},         symbols |-> {{"auth"}},   phrase |-> FALSE],
      [cosine |-> 600000,  words |-> {"stripe"},        symbols |-> {{"pay"}},    phrase |-> FALSE],
      [cosine |-> 0,       words |-> {"math"},          symbols |-> {},           phrase |-> FALSE] }

NoOptions ==
    [ topK |-> Undefined, semanticWeight |-> Undefined, keywordWeight |-> Undefined,
      minSemanticScore |-> Undefined, minKeywordScore |-> Undefined,
      minCombinedScore |-> Undefined, requireKeywordMatch |-> Undefined,
      requireSemanticMatch |-> Undefined ]

OptionPool ==
    { NoOptions,
      [NoOptions EXCEPT !.topK = {10}],
      [NoOptions EXCEPT !.topK = {25}, !.minCombinedScore = {0}],
      [NoOptions EXCEPT !.topK = {0}],
      [NoOptions EXCEPT !.topK = {-30}, !.minCombinedScore = {0}],
      [NoOptions EXCEPT !.minCombinedScore = {0}],
      [NoOptions EXCEPT !.minCombinedScore = {0}, !.requireKeywordMatch = {TRUE}],
      [NoOptions EXCEPT !.minCombinedScore = {0}, !.requireSemanticMatch = {TRUE}],
      [NoOptions EXCEPT !.minCombinedScore = {0}, !.minSemanticScore = {50 * ScoreUnit}],
      [NoOptions EXCEPT !.minCombinedScore = {0}, !.minKeywordScore = {ScoreUnit \div 2}],
      [NoOptions EXCEPT !.minCombinedScore = {ScoreUnit \div 2}, !.topK = {20}],
      [NoOptions EXCEPT !.minCombinedScore = {0}, !.semanticWeight = {0}, !.keywordWeight = {0}],
      [NoOptions EXCEPT !.minCombinedScore = {0}, !.semanticWeight = {0}, !.keywordWeight = {100},
                        !.topK = {20}],
      [NoOptions EXCEPT !.minCombinedScore = {0}, !.semanticWeight = {-100}, !.topK = {30}],
      [NoOptions EXCEPT !.minCombinedScore = {ScoreUnit \div 200}],
      [NoOptions EXCEPT !.minCombinedScore = {0}, !.minSemanticScore = {ScoreUnit \div 100}],
      [NoOptions EXCEPT !.minCombinedScore = {0}, !.minSemanticScore = {ScoreUnit \div 2}],
      [NoOptions EXCEPT !.minCombinedScore = {0}, !.minSemanticScore = {ScoreUnit}] }

DocSeqs == UNION {[1..n -> DocPool] : n \in 0..MaxDocs}

RankInit ==
    /\ sDocs \in DocSeqs
    /\ sQuery \in QueryPool
    /\ sOptions \in OptionPool
    /\ sResults = <<>>
    /\ spc = "ready"

RankIdle ==
    /\ sDocs = <<>>
    /\ sQuery = {}
    /\ sOptions = NoOptions
    /\ sResults = <<>>
    /\ spc = "done"

\* const [queryVec] = await fetchEmbedding(query);
SearchBegin ==
    /\ UNCHANGED notRank
    /\ spc = "ready"
    /\ spc' = "embedding"
    /\ UNCHANGED <<sDocs, sQuery, sOptions, sResults>>

\* The query vector arrives: score, filter, sort, cut and report.
SearchRank ==
    /\ UNCHANGED notRank
    /\ spc = "embedding"
    /\ sResults' = SearchResults(sDocs, sQuery, sOptions)
    /\ spc' = "done"
    /\ UNCHANGED <<sDocs, sQuery, sOptions>>

\* fetchEmbedding(query) rejects: search() rejects with it.
SearchEmbedFails ==
    /\ UNCHANGED notRank
    /\ spc = "embedding"
    /\ spc' = "failed"
    /\ UNCHANGED <<sDocs, sQuery, sOptions, sResults>>

RankNext ==
    \/ SearchBegin
    \/ SearchRank
    \/ SearchEmbedFails

(***************************************************************************)
(* Claims about SearchIndex.search                                         *)
(***************************************************************************)
\* The exact scores of the document a result names.
ResultEntry(k) ==
    ScoreEntry(sDocs, sResults[k].idx, sQuery, ResolveSearchOptions(sOptions))

\* C9: the results are in descending order of combined score; results with
\* equal combined score are in descending order of keyword score, and results
\* equal in both in descending order of semantic score.  The reported
\* (rounded) combined score never increases down the list.
C9_RankedOrder ==
    spc = "done" =>
        \A k \in 1..(Len(sResults) - 1) :
            LET a == ResultEntry(k)
                b == ResultEntry(k + 1)
            IN  /\ \/ a.score > b.score
                   \/ a.score = b.score /\ a.keywordScore > b.keywordScore
                   \/ /\ a.score = b.score
                      /\ a.keywordScore = b.keywordScore
                      /\ a.semanticScore >= b.semanticScore
                /\ sResults[k].score >= sResults[k + 1].score

\* A search returned two documents with equal combined score and different
\* keyword score, and two with equal combined and keyword score and different
\* semantic score.
C9_Witness ==
    /\ spc = "done"
    /\ \E k \in 1..(Len(sResults) - 1) :
         /\ ResultEntry(k).score = ResultEntry(k + 1).score
         /\ ResultEntry(k).keywordScore # ResultEntry(k + 1).keywordScore
    /\ \E k \in 1..(Len(sResults) - 1) :
         /\ ResultEntry(k).score = ResultEntry(k + 1).score
         /\ ResultEntry(k).keywordScore = ResultEntry(k + 1).keywordScore
         /\ ResultEntry(k).semanticScore # ResultEntry(k + 1).semanticScore

\* The documents the claim calls passing: those no active filter rejects.
C10_Passing ==
    LET o == ResolveSearchOptions(sOptions)
    IN  { idx \in 1..Len(sDocs) :
            LET e == ScoreEntry(sDocs, idx, sQuery, o)
            IN  /\ Max(e.semanticScore, 0) >= o.minSemanticScore
                /\ e.keywordScore >= o.minKeywordScore
                /\ e.score >= o.minCombinedScore
                /\ (o.requireKeywordMatch => e.keywordScore > 0)
                /\ (o.requireSemanticMatch => e.semanticScore > 0) }

\* The requested top-K raised to at least 1 (5 when none is requested).
C10_K ==
    IF sOptions.topK = Undefined THEN 5
    ELSE IF ValueOf(sOptions.topK) < 10 THEN 1
    ELSE ValueOf(sOptions.topK) \div 10

C10_Outranks(a, b) ==
    \/ a.score > b.score
    \/ a.score = b.score /\ a.keywordScore > b.keywordScore
    \/ /\ a.score = b.score
       /\ a.keywordScore = b.keywordScore
       /\ a.semanticScore > b.semanticScore

\* C10: search returns exactly the K highest-ranked passing documents, or all
\* of them if there are fewer: every returned document passes every active
\* filter, none is returned twice, and no passing document left out outranks
\* a returned one.
C10_TopKOfPassing ==
    spc = "done" =>
        LET returned == {sResults[k].idx : k \in 1..Len(sResults)}
            o        == ResolveSearchOptions(sOptions)
        IN  /\ returned \subseteq C10_Passing
            /\ Cardinality(returned) = Len(sResults)
            /\ Len(sResults) = Min(C10_K, Cardinality(C10_Passing))
            /\ \A p \in C10_Passing \ returned : \A r \in returned :
                  ~C10_Outranks(ScoreEntry(sDocs, p, sQuery, o),
                                ScoreEntry(sDocs, r, sQuery, o))

\* A search cut its results to K with passing documents left out, while a
\* filter rejected another document.
C10_Witness ==
    /\ spc = "done"
    /\ Len(sResults) = C10_K
    /\ Cardinality(C10_Passing) > C10_K
    /\ Cardinality(C10_Passing) < Len(sDocs)

\* The threshold options, and the options given with every threshold as a
\* fraction of 1.
ThresholdOptions == {"minSemanticScore", "minKeywordScore", "minCombinedScore"}

GivenAsFractions(raw) ==
    \A name \in ThresholdOptions :
        raw[name] # Undefined => ValueOf(raw[name]) >= 0 /\ ValueOf(raw[name]) <= ScoreUnit

\* The same options with every given threshold f passed as the percentage
\* 100 * f.
AsPercentages(raw) ==
    [name \in DOMAIN raw |->
        IF name \in ThresholdOptions /\ raw[name] # Undefined
        THEN {100 * ValueOf(raw[name])}
        ELSE raw[name]]

SameAsPercentages ==
    /\ ResolveSearchOptions(AsPercentages(sOptions)) = ResolveSearchOptions(sOptions)
    /\ SearchResults(sDocs, sQuery, AsPercentages(sOptions)) = sResults

\* C11 as stated: for every fraction f in [0, 1], the threshold f and the
\* threshold 100 * f are normalized to the same value and give the same
\* search results.
C11_FractionEqualsPercentage ==
    spc = "done" /\ GivenAsFractions(sOptions) => SameAsPercentages

\* The percentage 100 * f is above 1, or f is 0.
ReadAsPercentage(raw) ==
    \A name \in ThresholdOptions :
        raw[name] # Undefined =>
            ValueOf(raw[name]) = 0 \/ 100 * ValueOf(raw[name]) > ScoreUnit

\* C11: for f = 0 and for every fraction f in (0.01, 1], the threshold f and
\* the threshold 100 * f are normalized to the same value and give the same
\* search results.
C11_FractionEqualsPercentageAbove1 ==
    spc = "done" /\ GivenAsFractions(sOptions) /\ ReadAsPercentage(sOptions)
        => SameAsPercentages

\* A search with a threshold of one half that has left a document out.
C11_Witness ==
    /\ spc = "done"
    /\ \E name \in ThresholdOptions : sOptions[name] = {ScoreUnit \div 2}
    /\ sResults # <<>>
    /\ Len(sResults) < Len(sDocs)
    /\ Len(sResults) < ResolveSearchOptions(sOptions).topK

(***************************************************************************)
(* Incremental refresh tracker: startEmbeddingTracker                      *)
(***************************************************************************)
MIN_FILES_PER_TICK == 5
MAX_FILES_PER_TICK == 10
DEFAULT_FILES_PER_TICK == 8
DEFAULT_DEBOUNCE_MS == 700
MIN_DEBOUNCE_MS == 100
RETRY_DELAY_MS == 100

\* Bound of the tracker model: flushes whose refreshes may be running at the
\* same time.
MaxFlushes == 2

\* The clock of the tracker model advances in steps of the retry delay.
TrackTickMs == RETRY_DELAY_MS

\* Paths the watcher reports, already normalized; the last is under an
\* ignored prefix.
TrackedPaths == <<"src/a.ts", "src/b.ts", "src/c.ts", "src/d.ts", "src/e.ts", "src/f.ts">>
IgnoredPaths == {".git/index"}
WatchedPaths == {TrackedPaths[k] : k \in 1..Len(TrackedPaths)} \cup IgnoredPaths

ShouldTrack(path) == path \notin IgnoredPaths

ClampFilesPerTick(value) ==
    IF value = Undefined THEN DEFAULT_FILES_PER_TICK
    ELSE Max(MIN_FILES_PER_TICK, Min(MAX_FILES_PER_TICK, ValueOf(value)))

ClampDebounceMs(value) ==
    IF value = Undefined THEN DEFAULT_DEBOUNCE_MS
    ELSE Max(MIN_DEBOUNCE_MS, ValueOf(value))

RefreshKinds == {"file", "identifier"}
NoFlush == [active |-> FALSE, id |-> 0, fulfilled |-> {}]
AllRefreshes == [kind : RefreshKinds, flush : 1..MaxFlushes]

SeqToSet(seq) == {seq[k] : k \in 1..Len(seq)}

\* Set.prototype.add keeps the place of a path that is already pending.
AddPending(pending, path) ==
    IF path \in SeqToSet(pending) THEN pending ELSE Append(pending, path)

\* The tracker treats all tracked paths alike, so the watcher reports a path
\* that is pending, or the first tracked path that is not.
MayReport(path) ==
    \/ ~ShouldTrack(path)
    \/ path \in SeqToSet(pendingFiles)
    \/ \E k \in 1..Len(TrackedPaths) :
        /\ path = TrackedPaths[k]
        /\ \A j \in 1..(k - 1) : TrackedPaths[j] \in SeqToSet(pendingFiles)

\* A schedule that leaves a timer that is already set alone.
ScheduleUnlessSet(kind, delay) ==
    /\ timer' = IF timer = "none" THEN kind ELSE timer
    /\ timerLeft' = IF timer = "none" THEN delay ELSE timerLeft

\* schedule(delay): the timer that is set is cleared and a new one is set.
Schedule(kind, delay) ==
    /\ timer' = kind
    /\ timerLeft' = delay

\* The options the tracker is started with.
FilesPerTickOptions == {{1}, {20}}
DebounceOptions == {{200}, {50}}

TrackInit ==
    /\ pendingFiles = <<>>
    /\ \E option \in FilesPerTickOptions : maxFilesPerTick = ClampFilesPerTick(option)
    /\ \E option \in DebounceOptions : debounceMs = ClampDebounceMs(option)
    /\ timer = "none"
    /\ timerLeft = 0
    /\ sinceEvent = debounceMs
    /\ isProcessing = FALSE
    /\ closed = FALSE
    /\ flush = NoFlush
    /\ flushCount = 0
    /\ refreshes = {}

TrackIdle ==
    /\ pendingFiles = <<>>
    /\ maxFilesPerTick = DEFAULT_FILES_PER_TICK
    /\ debounceMs = DEFAULT_DEBOUNCE_MS
    /\ timer = "none"
    /\ timerLeft = 0
    /\ sinceEvent = DEFAULT_DEBOUNCE_MS
    /\ isProcessing = FALSE
    /\ closed = TRUE
    /\ flush = NoFlush
    /\ flushCount = 0
    /\ refreshes = {}

\* The watcher callback.
ChangeEvent(path) ==
    /\ UNCHANGED notTrack
    /\ ~closed
    /\ MayReport(path)
    /\ IF ShouldTrack(path)
       THEN /\ pendingFiles' = AddPending(pendingFiles, path)
            /\ Schedule("debounce", debounceMs)
            /\ sinceEvent' = 0
       ELSE UNCHANGED <<pendingFiles, timer, timerLeft, sinceEvent>>
    /\ UNCHANGED <<maxFilesPerTick, debounceMs, isProcessing, closed, flush, flushCount,
                   refreshes>>

\* Time passes: the timer that is set comes closer to firing.
TrackTick ==
    /\ UNCHANGED notTrack
    /\ timerLeft' = Max(0, timerLeft - TrackTickMs)
    /\ sinceEvent' = Min(debounceMs, sinceEvent + TrackTickMs)
    /\ UNCHANGED <<pendingFiles, maxFilesPerTick, debounceMs, timer, isProcessing, closed,
                   flush, flushCount, refreshes>>

TimerIsDue == timer # "none" /\ timerLeft = 0

\* The timer fires and flushPending returns early: the tracker is closed, a
\* flush is in progress, or nothing is pending.
TimerFiresIdle ==
    /\ UNCHANGED notTrack
    /\ TimerIsDue
    /\ closed \/ isProcessing \/ Len(pendingFiles) = 0
    /\ timer' = "none"
    /\ UNCHANGED <<pendingFiles, maxFilesPerTick, debounceMs, timerLeft, sinceEvent,
                   isProcessing, closed, flush, flushCount, refreshes>>

\* The call of Promise.all in flushPending: both refreshes of the batch start.
StartedRefreshes(id) == {[kind |-> kind, flush |-> id] : kind \in RefreshKinds}

\* Names for the flushes whose refreshes have all settled may be used again.
FreeFlushIds == (1..MaxFlushes) \ {r.flush : r \in refreshes}

\* The timer fires and flushPending takes a batch and starts its refreshes.
TimerFiresFlush ==
    /\ UNCHANGED notTrack
    /\ TimerIsDue
    /\ ~closed /\ ~isProcessing /\ Len(pendingFiles) > 0
    /\ FreeFlushIds # {}
    /\ timer' = "none"
    /\ isProcessing' = TRUE
    /\ pendingFiles' = Slice(pendingFiles, maxFilesPerTick, Len(pendingFiles))
    /\ \E id \in FreeFlushIds :
        /\ \A other \in FreeFlushIds : id <= other
        /\ flushCount' = id
        /\ flush' = [active |-> TRUE, id |-> id, fulfilled |-> {}]
        /\ refreshes' = refreshes \cup StartedRefreshes(id)
    /\ UNCHANGED <<maxFilesPerTick, debounceMs, timerLeft, sinceEvent, closed>>

\* A finally block that schedules nothing.
FlushFinallyNoRetry ==
    /\ isProcessing' = FALSE
    /\ flush' = NoFlush
    /\ UNCHANGED <<timer, timerLeft>>

\* The finally block of flushPending.
FlushFinally ==
    /\ isProcessing' = FALSE
    /\ flush' = NoFlush
    /\ IF Len(pendingFiles) > 0
       THEN Schedule("retry", RETRY_DELAY_MS)
       ELSE UNCHANGED <<timer, timerLeft>>

\* A refresh resolves.  Promise.all resolves once both have.
RefreshResolves(r) ==
    /\ UNCHANGED notTrack
    /\ r \in refreshes
    /\ refreshes' = refreshes \ {r}
    /\ IF flush.active /\ flush.id = r.flush
       THEN IF flush.fulfilled \cup {r.kind} = RefreshKinds
            THEN FlushFinally
            ELSE /\ flush' = [flush EXCEPT !.fulfilled = flush.fulfilled \cup {r.kind}]
                 /\ UNCHANGED <<isProcessing, timer, timerLeft>>
       ELSE UNCHANGED <<flush, isProcessing, timer, timerLeft>>
    /\ UNCHANGED <<pendingFiles, maxFilesPerTick, debounceMs, sinceEvent, closed, flushCount>>

\* A refresh rejects.  Promise.all rejects with the first rejection, and
\* flushPending goes through catch and finally while the other refresh may
\* still be running.
RefreshRejects(r) ==
    /\ UNCHANGED notTrack
    /\ r \in refreshes
    /\ refreshes' = refreshes \ {r}
    /\ IF flush.active /\ flush.id = r.flush
       THEN FlushFinally
       ELSE UNCHANGED <<flush, isProcessing, timer, timerLeft>>
    /\ UNCHANGED <<pendingFiles, maxFilesPerTick, debounceMs, sinceEvent, closed, flushCount>>

\* The function startEmbeddingTracker returns.
CloseTracker ==
    /\ UNCHANGED notTrack
    /\ ~closed
    /\ closed' = TRUE
    /\ timer' = "none"
    /\ UNCHANGED <<pendingFiles, maxFilesPerTick, debounceMs, timerLeft, sinceEvent,
                   isProcessing, flush, flushCount, refreshes>>

TrackNext ==
    \/ \E path \in WatchedPaths : ChangeEvent(path)
    \/ TrackTick
    \/ TimerFiresIdle
    \/ TimerFiresFlush
    \/ \E r \in refreshes : RefreshResolves(r)
    \/ \E r \in refreshes : RefreshRejects(r)
    \/ CloseTracker

\* The timers fire when they are due, time passes, and a refresh that is
\* running settles.
TrackFairness ==
    /\ WF_trackVars(TrackTick)
    /\ WF_trackVars(TimerFiresIdle)
    /\ WF_trackVars(TimerFiresFlush)
    /\ WF_trackVars(\E r \in AllRefreshes : RefreshResolves(r) \/ RefreshRejects(r))

(***************************************************************************)
(* Claims about the tracker                                                *)
(***************************************************************************)
\* C4: at most one flush is in flight: the refreshes that have not finished
\* were all started by the same flush, so no refresh is started while a
\* refresh of an earlier flush is still running.
C4_OneFlushInFlight ==
    \A r1 \in refreshes : \A r2 \in refreshes : r1.flush = r2.flush

IsPending(path) == path \in SeqToSet(pendingFiles)

\* A step in which flushPending takes a batch, and one in which it ends.
FlushStarts == ~isProcessing /\ isProcessing'
FlushEnds == isProcessing /\ ~isProcessing'

\* A step in which the watcher callback accepts a change event.
AcceptedChangeEvent == \E path \in WatchedPaths : ShouldTrack(path) /\ ChangeEvent(path)

\* The batch a flush takes holds at most the per-tick maximum, which lies in
\* 5..10, and nothing leaves the pending set but the batch of a flush.
BatchIsBounded ==
    /\ maxFilesPerTick' \in MIN_FILES_PER_TICK..MAX_FILES_PER_TICK
    /\ FlushStarts =>
        /\ Len(pendingFiles) - Len(pendingFiles') \in 1..maxFilesPerTick
        /\ pendingFiles' = SubSeq(pendingFiles, Len(pendingFiles) - Len(pendingFiles') + 1,
                                  Len(pendingFiles))
    /\ ~FlushStarts => \A path \in WatchedPaths : IsPending(path) => IsPending(path)'

\* A flush that ends with paths pending leaves a timer set.
LeftoverIsRescheduled ==
    FlushEnds /\ Len(pendingFiles') > 0 => timer' # "none"

\* No change event has been accepted for the debounce interval.
EventsHaveStopped == sinceEvent >= debounceMs

\* Every pending path is eventually taken into the batch of a flush.
PendingIsTaken ==
    \A path \in WatchedPaths : IsPending(path) ~> ~IsPending(path)

\* C21 as stated: if the tracker is never stopped (and, by the fairness of
\* the specification, every refresh settles), every accepted path is
\* eventually taken into a flush batch, each batch holds at most the per-tick
\* maximum (clamped to 5..10), and a flush that leaves paths pending
\* schedules another flush.
C21_PendingEventuallyFlushed ==
    /\ [][BatchIsBounded /\ LeftoverIsRescheduled]_vars
    /\ ([]~closed) => PendingIsTaken

\* C21 with the condition it needs: the same, provided accepted change events
\* stop arriving at some point (from then on the last one is always at least
\* the debounce interval in the past).  Paths are then no longer added, so
\* every pending path has been taken exactly when the pending set is empty.  Each accepted event sets the debounce timer
\* anew, so a stream of events that never pauses for the debounce interval
\* postpones the flush for ever.
C21_PendingFlushedOnceEventsStop ==
    /\ [][BatchIsBounded /\ LeftoverIsRescheduled]_vars
    /\ (([]~closed) /\ <>[]EventsHaveStopped) => <>[](pendingFiles = <<>>)

\* A flush has taken the per-tick maximum and left a path pending, and its
\* end has scheduled the retry.
C21_Witness ==
    /\ ~closed /\ ~isProcessing
    /\ maxFilesPerTick = MIN_FILES_PER_TICK
    /\ Len(pendingFiles) = 1
    /\ pendingFiles[1] = TrackedPaths[MIN_FILES_PER_TICK + 1]
    /\ timer = "retry"

\* C22 as stated: no flush starts less than the debounce interval after the
\* most recent accepted change event.
C22_FlushAfterDebounce ==
    [][FlushStarts => sinceEvent >= debounceMs]_vars

\* C22 with the case it leaves out: a flush starts no sooner than the debounce
\* interval after the most recent accepted change event, unless it is the
\* retry that the end of the preceding flush scheduled 100 ms ahead because
\* paths were pending; an accepted change event always sets the timer to the
\* full debounce interval.
C22_FlushAfterDebounceUnlessRetry ==
    [][/\ FlushStarts => sinceEvent >= debounceMs \/ timer = "retry"
       /\ AcceptedChangeEvent => timer' = "debounce" /\ timerLeft' = debounceMs]_vars

\* A flush is in progress that started after a change event had set the
\* debounce timer anew and the full interval had passed.
C22_Witness ==
    /\ isProcessing
    /\ debounceMs > RETRY_DELAY_MS
    /\ sinceEvent >= debounceMs
    /\ flushCount = 2

(***************************************************************************)
(* MCP server: semantic_code_search, propose_commit, undo_change           *)
(***************************************************************************)
INDEX_TTL_MS == 60000

\* Bounds of the server model: tool calls that may start when they overlap
\* and when they follow one another, and clock ticks.
MaxOps == 3
MaxIndexOps == 5
MaxTicks == 2

\* The clock advances in steps of half the time to live.
TickMs == INDEX_TTL_MS \div 2
StartTime == 2 * INDEX_TTL_MS

Clients == {1, 2}
RootDir == "root"
FilePaths == <<"a.ts", "b.ts">>
Paths == SeqToSet(FilePaths)

\* Embedding texts as sequences of UTF-16 code units: "C", "Aa" and "BB".
\* The last two have the same hashContent.
FileTexts == {<<67>>, <<65, 97>>, <<66, 66>>}
InitialText == <<67>>

\* ((h << 5) - h + code) | 0: 31 * h + code as a signed 32-bit integer,
\* computed on the two 16-bit halves of h.
HalfWord == 256 * 256

HashStep(h, code) ==
    LET low == (h % HalfWord) * 31 + code
        high == (((h \div HalfWord) % HalfWord) * 31 + (low \div HalfWord)) % HalfWord
        signed == IF high >= HalfWord \div 2 THEN high - HalfWord ELSE high
    IN signed * HalfWord + (low % HalfWord)

RECURSIVE HashFrom(_, _, _)
HashFrom(h, text, i) ==
    IF i > Len(text) THEN h
    ELSE HashFrom(HashStep(h, text[i]), text, i + 1)

\* hashContent, without the rendering in base 36, which is one-to-one.
HashContent(text) == HashFrom(0, text, 1)

\* The vector the provider returns for a text.
EmbedText(text) == <<"vector", text>>

NoEntry == <<>>
NullIndex == <<>>
NoVector == <<>>
NullDir == "null"

\* cache[doc.path]?.hash === hash
CacheHit(cache, doc) ==
    /\ cache[doc.path] # NoEntry
    /\ cache[doc.path].hash = HashContent(doc.text)

\* The loop of SearchIndex.index over the documents: the vectors found in the
\* cache, and the positions of the documents that are not.
CachedVectors(cache, docs) ==
    [i \in 1..Len(docs) |->
        IF CacheHit(cache, docs[i]) THEN cache[docs[i].path].vector ELSE NoVector]

RECURSIVE UncachedFrom(_, _, _)
UncachedFrom(cache, docs, i) ==
    IF i > Len(docs) THEN <<>>
    ELSE IF CacheHit(cache, docs[i]) THEN UncachedFrom(cache, docs, i + 1)
    ELSE <<i>> \o UncachedFrom(cache, docs, i + 1)

\* A variant of the split that takes any entry of the path for a hit, whatever
\* its hash.
UncachedByPresence(cache, docs) ==
    LET RECURSIVE From(_)
        From(i) == IF i > Len(docs) THEN <<>>
                   ELSE IF cache[docs[i].path] # NoEntry THEN From(i + 1)
                   ELSE <<i>> \o From(i + 1)
    IN From(1)

Uncached(cache, docs) == UncachedFrom(cache, docs, 1)

\* The inner loop over a batch: the vectors and the cache after it.
VectorsAfterBatch(vectors, docs, batch) ==
    [i \in 1..Len(vectors) |->
        IF i \in SeqToSet(batch) THEN EmbedText(docs[i].text) ELSE vectors[i]]

CacheAfterBatch(cache, docs, batch) ==
    [p \in Paths |->
        IF \E k \in 1..Len(batch) : docs[batch[k]].path = p
        THEN LET i == CHOOSE i \in SeqToSet(batch) : docs[i].path = p
             IN [hash |-> HashContent(docs[i].text), vector |-> EmbedText(docs[i].text)]
        ELSE cache[p]]

\* buildIndex line 109: the cached index is reused.
CacheIsFresh ==
    /\ cachedIndex # NullIndex
    /\ cachedRootDir = RootDir
    /\ now - lastIndexTime < INDEX_TTL_MS

NoArg == [path |-> "", text |-> <<>>]

\* The arguments of propose_commit: any text for the first file, one text
\* for the second.
CommitArgs ==
    {[path |-> FilePaths[1], text |-> text] : text \in FileTexts}
        \cup {[path |-> FilePaths[2], text |-> <<65, 97>>]}
IdleClient ==
    [op |-> "idle", pc |-> "idle", arg |-> NoArg, docs |-> <<>>, index |-> NullIndex,
     cache |-> [p \in Paths |-> NoEntry], uncached |-> <<>>, b |-> 0, sent |-> {},
     built |-> FALSE, need |-> [p \in Paths |-> 0], result |-> "none"]

Finished(result) == [IdleClient EXCEPT !.pc = "finished", !.result = result]

\* A variant of the test below under which index() returns without embedding.
NeedsEmbeddingNever(uncached) == FALSE

\* if (uncached.length > 0)
NeedsEmbedding(uncached) == Len(uncached) > 0

ServerInit(ops) ==
    /\ files = [p \in Paths |-> InitialText]
    /\ diskCache = [p \in Paths |-> NoEntry]
    /\ cachedIndex = NullIndex
    /\ cachedRootDir = NullDir
    /\ lastIndexTime = 0
    /\ now = StartTime
    /\ restorePoints = {}
    /\ client = [c \in Clients |-> IdleClient]
    /\ opsLeft = ops
    /\ writeCount = [p \in Paths |-> 0]
    /\ doneCount = [p \in Paths |-> 0]
    /\ lastBuilt = <<>>

ServerIdle ==
    /\ files = [p \in Paths |-> InitialText]
    /\ diskCache = [p \in Paths |-> NoEntry]
    /\ cachedIndex = NullIndex
    /\ cachedRootDir = NullDir
    /\ lastIndexTime = 0
    /\ now = StartTime
    /\ restorePoints = {}
    /\ client = [c \in Clients |-> IdleClient]
    /\ opsLeft = 0
    /\ writeCount = [p \in Paths |-> 0]
    /\ doneCount = [p \in Paths |-> 0]
    /\ lastBuilt = <<>>

CanStart(c) ==
    /\ client[c].pc \in {"idle", "finished"}
    /\ opsLeft > 0

\* semanticCodeSearch calls buildIndex, which returns the cached index or
\* walks the directory; the walk finds the files of FilePaths.
SearchStart(c) ==
    /\ UNCHANGED notServer
    /\ CanStart(c)
    /\ opsLeft' = opsLeft - 1
    /\ client' = [client EXCEPT ![c] =
           IF CacheIsFresh
           THEN [IdleClient EXCEPT !.op = "search", !.pc = "query",
                                   !.index = cachedIndex, !.need = doneCount]
           ELSE [IdleClient EXCEPT !.op = "search", !.pc = "read", !.need = doneCount]]
    /\ UNCHANGED <<files, diskCache, cachedIndex, cachedRootDir, lastIndexTime, now,
                   restorePoints, writeCount, doneCount, lastBuilt>>

\* buildSearchDocumentForFile resolves for the next file.  After the last
\* file a SearchIndex is constructed and index() runs up to its first await.
ReadFile(c) ==
    /\ UNCHANGED notServer
    /\ client[c].pc = "read"
    /\ LET path == FilePaths[Len(client[c].docs) + 1]
           doc == [path |-> path, text |-> files[path], stamp |-> writeCount[path]]
           docs == Append(client[c].docs, doc)
       IN client' = [client EXCEPT ![c] =
              IF Len(docs) = Len(FilePaths)
              THEN [@ EXCEPT !.docs = docs, !.pc = "loadCache",
                             !.index = [documents |-> docs, vectors |-> <<>>]]
              ELSE [@ EXCEPT !.docs = docs]]
    /\ UNCHANGED <<files, diskCache, cachedIndex, cachedRootDir, lastIndexTime, now,
                   restorePoints, opsLeft, writeCount, doneCount, lastBuilt>>

\* buildIndex lines 124-126.
Install(index) ==
    /\ cachedIndex' = index
    /\ cachedRootDir' = RootDir
    /\ lastIndexTime' = now

\* loadCache resolves; the documents are split into cached and uncached.
\* With nothing to embed index() returns and buildIndex installs the index.
LoadCache(c) ==
    /\ UNCHANGED notServer
    /\ client[c].pc = "loadCache"
    /\ LET docs == client[c].docs
           index == [documents |-> docs, vectors |-> CachedVectors(diskCache, docs)]
           uncached == Uncached(diskCache, docs)
       IN IF NeedsEmbedding(uncached)
          THEN /\ client' = [client EXCEPT ![c] =
                      [@ EXCEPT !.cache = diskCache, !.index = index,
                                !.uncached = uncached, !.b = 0, !.pc = "embed"]]
               /\ UNCHANGED <<cachedIndex, cachedRootDir, lastIndexTime>>
          ELSE /\ client' = [client EXCEPT ![c] =
                      [@ EXCEPT !.cache = diskCache, !.index = index,
                                !.uncached = uncached, !.built = TRUE, !.pc = "query"]]
               /\ Install(index)
    /\ UNCHANGED <<files, diskCache, now, restorePoints, opsLeft, writeCount, doneCount,
                   lastBuilt>>

NextBatch(c) ==
    Slice(client[c].uncached, client[c].b,
          client[c].b + GetEmbeddingBatchSize(0))

BatchPaths(c) == {client[c].docs[i].path : i \in SeqToSet(NextBatch(c))}

\* fetchEmbedding resolves for a batch of uncached documents.
EmbedBatchOk(c) ==
    /\ UNCHANGED notServer
    /\ client[c].pc = "embed"
    /\ LET batch == NextBatch(c)
           b == client[c].b + GetEmbeddingBatchSize(0)
       IN client' = [client EXCEPT ![c] =
              [@ EXCEPT !.index.vectors = VectorsAfterBatch(@, client[c].docs, batch),
                        !.cache = CacheAfterBatch(@, client[c].docs, batch),
                        !.sent = @ \cup BatchPaths(c),
                        !.b = b,
                        !.pc = IF b < Len(client[c].uncached) THEN "embed" ELSE "saveCache"]]
    /\ UNCHANGED <<files, diskCache, cachedIndex, cachedRootDir, lastIndexTime, now,
                   restorePoints, opsLeft, writeCount, doneCount, lastBuilt>>

\* fetchEmbedding rejects for a batch: nothing catches the error in index(),
\* buildIndex or semanticCodeSearch.
EmbedBatchFails(c) ==
    /\ UNCHANGED notServer
    /\ client[c].pc = "embed"
    /\ client' = [client EXCEPT ![c] = Finished("rejected by index")]
    /\ UNCHANGED <<files, diskCache, cachedIndex, cachedRootDir, lastIndexTime, now,
                   restorePoints, opsLeft, writeCount, doneCount, lastBuilt>>

\* saveCache resolves, index() returns and buildIndex installs the index.
SaveCache(c) ==
    /\ UNCHANGED notServer
    /\ client[c].pc = "saveCache"
    /\ diskCache' = client[c].cache
    /\ Install(client[c].index)
    /\ client' = [client EXCEPT ![c] = [@ EXCEPT !.built = TRUE, !.pc = "query"]]
    /\ UNCHANGED <<files, now, restorePoints, opsLeft, writeCount, doneCount, lastBuilt>>

BuiltTexts(c) ==
    IF client[c].built
    THEN [p \in Paths |->
             LET i == CHOOSE i \in 1..Len(client[c].docs) : client[c].docs[i].path = p
             IN client[c].docs[i].text]
    ELSE lastBuilt

\* The query is embedded, the documents are ranked, the report is returned.
QueryOk(c) ==
    /\ UNCHANGED notServer
    /\ client[c].pc = "query"
    /\ lastBuilt' = BuiltTexts(c)
    /\ client' = [client EXCEPT ![c] = Finished("report")]
    /\ UNCHANGED <<files, diskCache, cachedIndex, cachedRootDir, lastIndexTime, now,
                   restorePoints, opsLeft, writeCount, doneCount>>

\* fetchEmbedding rejects for the query: index.search and semanticCodeSearch
\* reject.
QueryFails(c) ==
    /\ UNCHANGED notServer
    /\ client[c].pc = "query"
    /\ lastBuilt' = BuiltTexts(c)
    /\ client' = [client EXCEPT ![c] = Finished("rejected by query")]
    /\ UNCHANGED <<files, diskCache, cachedIndex, cachedRootDir, lastIndexTime, now,
                   restorePoints, opsLeft, writeCount, doneCount>>

\* invalidateSearchCache
InvalidateSearchCache ==
    /\ cachedIndex' = NullIndex
    /\ cachedRootDir' = NullDir
    /\ lastIndexTime' = 0

\* The propose_commit handler invalidates the caches and calls proposeCommit,
\* which returns the rejection report when the content breaks the rules and
\* otherwise goes on to create a restore point.
CommitStart(c, path, text, valid) ==
    /\ UNCHANGED notServer
    /\ CanStart(c)
    /\ opsLeft' = opsLeft - 1
    /\ InvalidateSearchCache
    /\ client' = [client EXCEPT ![c] =
           IF valid
           THEN [IdleClient EXCEPT !.op = "commit", !.pc = "restorePoint",
                                   !.arg = [path |-> path, text |-> text]]
           ELSE Finished("report")]
    /\ UNCHANGED <<files, diskCache, now, restorePoints, writeCount, doneCount, lastBuilt>>

\* createRestorePoint resolves: the file as it is now has been backed up.
CommitRestorePoint(c) ==
    /\ UNCHANGED notServer
    /\ client[c].pc = "restorePoint"
    /\ restorePoints' = restorePoints \cup
           {[path |-> client[c].arg.path, text |-> files[client[c].arg.path]]}
    /\ client' = [client EXCEPT ![c].pc = "write"]
    /\ UNCHANGED <<files, diskCache, cachedIndex, cachedRootDir, lastIndexTime, now,
                   opsLeft, writeCount, doneCount, lastBuilt>>

\* A write of a file, and the completion of the tool call that made it.
WriteFile(path, text) ==
    /\ files' = [files EXCEPT ![path] = text]
    /\ writeCount' = [writeCount EXCEPT ![path] = @ + 1]
    /\ doneCount' = [doneCount EXCEPT ![path] = writeCount[path] + 1]

\* writeFile resolves, proposeCommit and the handler return.
CommitWrite(c) ==
    /\ UNCHANGED notServer
    /\ client[c].pc = "write"
    /\ WriteFile(client[c].arg.path, client[c].arg.text)
    /\ client' = [client EXCEPT ![c] = Finished("report")]
    /\ UNCHANGED <<diskCache, cachedIndex, cachedRootDir, lastIndexTime, now,
                   restorePoints, opsLeft, lastBuilt>>

\* The undo_change handler calls restorePoint for an existing restore point.
UndoStart(c, point) ==
    /\ UNCHANGED notServer
    /\ CanStart(c)
    /\ point \in restorePoints
    /\ opsLeft' = opsLeft - 1
    /\ client' = [client EXCEPT ![c] =
           [IdleClient EXCEPT !.op = "undo", !.pc = "restore", !.arg = point]]
    /\ UNCHANGED <<files, diskCache, cachedIndex, cachedRootDir, lastIndexTime, now,
                   restorePoints, writeCount, doneCount, lastBuilt>>

\* restorePoint has written the backup over the file and resolves; the
\* handler invalidates the caches and returns.
UndoRestore(c) ==
    /\ UNCHANGED notServer
    /\ client[c].pc = "restore"
    /\ WriteFile(client[c].arg.path, client[c].arg.text)
    /\ InvalidateSearchCache
    /\ client' = [client EXCEPT ![c] = Finished("report")]
    /\ UNCHANGED <<diskCache, now, restorePoints, opsLeft, lastBuilt>>

\* Time passes.
Tick ==
    /\ UNCHANGED notServer
    /\ now < StartTime + MaxTicks * TickMs
    /\ now' = now + TickMs
    /\ UNCHANGED <<files, diskCache, cachedIndex, cachedRootDir, lastIndexTime,
                   restorePoints, client, opsLeft, writeCount, doneCount, lastBuilt>>

ClientNext(c) ==
    \/ SearchStart(c)
    \/ ReadFile(c)
    \/ LoadCache(c)
    \/ EmbedBatchOk(c)
    \/ EmbedBatchFails(c)
    \/ SaveCache(c)
    \/ QueryOk(c)
    \/ QueryFails(c)
    \/ \E a \in CommitArgs : \E valid \in BOOLEAN :
           CommitStart(c, a.path, a.text, valid)
    \/ CommitRestorePoint(c)
    \/ CommitWrite(c)
    \/ \E point \in restorePoints : UndoStart(c, point)
    \/ UndoRestore(c)

\* Tool calls of all clients overlap.
ServerNext == Tick \/ \E c \in Clients : ClientNext(c)

\* One client: the tool calls follow one another.
IndexNext == Tick \/ ClientNext(1)

(***************************************************************************)
(* Claims about the index build and the server                             *)
(***************************************************************************)
\* The paths of the documents of a build that its cache, as loaded, does not
\* hold under the hash of their text.
MissedPaths(c, cache) ==
    {client[c].docs[i].path :
        i \in {k \in 1..Len(client[c].docs) : ~CacheHit(cache, client[c].docs[k])}}

\* The paths of the documents of a build whose text has another hash than in
\* the last completed build, or all of them if there was none.
ChangedPaths(c) ==
    {client[c].docs[i].path :
        i \in {k \in 1..Len(client[c].docs) :
                  \/ lastBuilt = <<>>
                  \/ HashContent(client[c].docs[k].text)
                         # HashContent(lastBuilt[client[c].docs[k].path])}}

\* C2: when index builds follow one another, a build sends to the provider
\* exactly the documents whose cache entry is missing or has another hash:
\* none when no text has changed its hash since the last completed build,
\* and otherwise the documents whose hash has changed and no other.
C2_EmbedsExactlyChanged ==
    \A c \in Clients :
        /\ client[c].pc = "saveCache" =>
               /\ client[c].sent = MissedPaths(c, diskCache)
               /\ client[c].sent = ChangedPaths(c)
        /\ client[c].pc = "query" /\ client[c].built /\ client[c].uncached = <<>> =>
               /\ client[c].sent = {}
               /\ MissedPaths(c, diskCache) = {}
               /\ ChangedPaths(c) = {}

\* A build after an earlier one has embedded one document of two.
C2_Witness ==
    \E c \in Clients :
        /\ client[c].pc = "saveCache"
        /\ lastBuilt # <<>>
        /\ Cardinality(client[c].sent) = 1
        /\ Len(client[c].docs) = 2

\* The search that started after a mutating call had completed holds an index
\* whose documents were read after the writes of that call, or read the text
\* the file still has.
ReadAfterChange(c) ==
    \A i \in 1..Len(client[c].index.documents) :
        LET doc == client[c].index.documents[i]
        IN \/ doc.stamp >= client[c].need[doc.path]
           \/ doc.text = files[doc.path]

\* C3: once propose_commit or undo_change has completed, a search that
\* starts afterwards is answered from an index built after the change, also
\* when the mutating call overlapped an index build.
C3_SearchSeesCompletedChange ==
    \A c \in Clients : client[c].pc = "query" => ReadAfterChange(c)

\* An index with a vector for each of the files' documents.
Complete(index) ==
    /\ index # NullIndex
    /\ Len(index.documents) = Len(FilePaths)
    /\ Len(index.vectors) = Len(index.documents)
    /\ \A i \in 1..Len(index.vectors) : index.vectors[i] # NoVector

\* C5: the index a search ranks against, and the index installed for other
\* searches to reuse, is complete at every moment: a build in progress is
\* never visible.
C5_NoHalfBuiltIndex ==
    /\ cachedIndex # NullIndex => Complete(cachedIndex)
    /\ \A c \in Clients : client[c].pc = "query" => Complete(client[c].index)

\* A search holds the installed index while the other client's build is
\* waiting for the provider.
C5_Witness ==
    \E c \in Clients : \E d \in Clients :
        /\ client[c].pc = "query"
        /\ ~client[c].built
        /\ client[c].index = cachedIndex
        /\ client[d].pc = "embed"

\* C7: a rejection of fetchEmbedding for a document, which is what remains
\* when its retries are exhausted, does not abort the index build.
C7_BuildSurvivesEmbeddingFailure ==
    \A c \in Clients : client[c].result # "rejected by index"

\* C8: semanticCodeSearch always resolves to a report and never rejects.
C8_SearchAlwaysReports ==
    \A c \in Clients : client[c].result \in {"none", "report"}

(***************************************************************************)
(* Call-site ranker: rankCallSites                                         *)
(*                                                                         *)
(* A line of the indexed files is a record: how the scan classifies it,    *)
(* the keyword coverage of its text for the query, and the cosine of the   *)
(* text's vector with the query vector.  A cache entry holds the cosine of *)
(* its vector in place of the vector.                                      *)
(***************************************************************************)
\* Bound of the call-site model: lines in the indexed files.
MaxLines == 52

CallLimits == {1, 2, 3, 9, 40}
LineCounts == {0, 2, 5, 33, MaxLines}
LinePatterns == {"mixed", "ties"}
CachePrefills == {"empty", "some", "stale"}

\* How the scan takes line i: the symbol's own line, another definition
\* line, a line the call pattern does not match, or a call site.
LineKind(i) ==
    IF i = 1 THEN "self"
    ELSE IF i = 2 THEN "definition"
    ELSE IF i % 7 = 0 THEN "other"
    ELSE "call"

LineKeywordScore(i, pattern) ==
    IF pattern = "ties" THEN ScoreUnit \div 2 ELSE ((i % 3) * ScoreUnit) \div 2

LineCosine(i, pattern) ==
    IF pattern = "ties" THEN ((i % 2) * ScoreUnit) \div 2
    ELSE ((((i * 7) % 11) - 2) * ScoreUnit) \div 10

FileLines(n, pattern) ==
    [i \in 1..n |->
        [line |-> i, kind |-> LineKind(i),
         keywordScore |-> LineKeywordScore(i, pattern),
         cosine |-> LineCosine(i, pattern)]]

\* The key and the hash of a call site's text identify the line here.
CallSiteHash(line) == line

\* The cache the caller loaded: empty, holding the entries of lines 3 to 5,
\* or holding an entry for line 3 under the hash of another text.
PrefilledCache(lines, prefill) ==
    [i \in 1..Len(lines) |->
        IF prefill = "some" /\ i \in 3..5
        THEN [hash |-> CallSiteHash(i), cosine |-> lines[i].cosine]
        ELSE IF prefill = "stale" /\ i = 3
        THEN [hash |-> 0, cosine |-> ScoreUnit]
        ELSE NoEntry]

\* The scan of fileLines: the lines the call pattern matches that are neither
\* the symbol's own line nor a definition line.
Candidates(lines) == SelectSeq(lines, LAMBDA l : l.kind = "call")

\* Array.prototype.sort with (a, b) => b[field] - a[field], which is stable.
RECURSIVE InsertByDesc(_, _, _)
InsertByDesc(sorted, entry, field) ==
    IF sorted = <<>> THEN <<entry>>
    ELSE IF Head(sorted)[field] - entry[field] < 0 THEN <<entry>> \o sorted
    ELSE <<Head(sorted)>> \o InsertByDesc(Tail(sorted), entry, field)

RECURSIVE SortByDesc(_, _)
SortByDesc(seq, field) ==
    IF seq = <<>> THEN <<>>
    ELSE InsertByDesc(SortByDesc(SubSeq(seq, 1, Len(seq) - 1), field), seq[Len(seq)], field)

\* A budget that every candidate fits in.
EmbedBudgetOfAll(limit) == Max(MaxLines, limit * 4)

EmbedBudget(limit) == Max(30, limit * 4)

Sampled(candidates, limit) ==
    Slice(SortByDesc(candidates, "keywordScore"), 0,
          Min(EmbedBudget(limit), Len(candidates)))

\* cache[key]?.hash !== hash
CallSiteMiss(cache, candidate) ==
    \/ cache[candidate.line] = NoEntry
    \/ cache[candidate.line].hash # CallSiteHash(candidate.line)

UncachedCallSites(cache, sampled) ==
    SelectSeq(sampled, LAMBDA candidate : CallSiteMiss(cache, candidate))

\* The map over keyedCandidates.
RankedCallSite(cache, candidate) ==
    LET semanticScore == IF cache[candidate.line] # NoEntry
                         THEN Max(cache[candidate.line].cosine, 0) ELSE 0
    IN  [line |-> candidate.line,
         semanticScore |-> semanticScore,
         keywordScore |-> candidate.keywordScore,
         score |-> Clamp01((82 * semanticScore + 18 * candidate.keywordScore) \div 100)]

\* A variant that returns every ranked site.
SitesNotCut(ranked, limit) == ranked

SitesCut(ranked, limit) == Slice(ranked, 0, Max(1, limit))

\* The value rankCallSites returns.
CallSitesResult(cache, sampled, candidates, limit) ==
    [sites |-> SitesCut(SortByDesc([k \in 1..Len(sampled) |->
                                       RankedCallSite(cache, sampled[k])], "score"), limit),
     total |-> Len(candidates)]

NoCallSites == [sites |-> <<>>, total |-> -1]

CallInit ==
    /\ \E n \in LineCounts : \E pattern \in LinePatterns : \E prefill \in CachePrefills :
           /\ csLines = FileLines(n, pattern)
           /\ csCache = PrefilledCache(FileLines(n, pattern), prefill)
    /\ csLimit \in CallLimits
    /\ csSampled = <<>>
    /\ csUncached = <<>>
    /\ csCursor = 0
    /\ csEmbedded = {}
    /\ csOut = NoCallSites
    /\ cspc = "ready"

CallIdle ==
    /\ csLines = <<>>
    /\ csCache = <<>>
    /\ csLimit = 1
    /\ csSampled = <<>>
    /\ csUncached = <<>>
    /\ csCursor = 0
    /\ csEmbedded = {}
    /\ csOut = NoCallSites
    /\ cspc = "done"

\* rankCallSites up to its first await: scan, sample, split by cache; with no
\* candidate or nothing to embed it returns.
CallSitesBegin ==
    /\ UNCHANGED notCall
    /\ cspc = "ready"
    /\ LET candidates == Candidates(csLines)
           sampled == Sampled(candidates, csLimit)
           uncached == UncachedCallSites(csCache, sampled)
       IN IF Len(candidates) = 0
          THEN /\ csOut' = [sites |-> <<>>, total |-> 0]
               /\ cspc' = "done"
               /\ UNCHANGED <<csSampled, csUncached>>
          ELSE /\ csSampled' = sampled
               /\ csUncached' = uncached
               /\ IF Len(uncached) > 0
                  THEN cspc' = "embedding" /\ UNCHANGED csOut
                  ELSE /\ csOut' = CallSitesResult(csCache, sampled, candidates, csLimit)
                       /\ cspc' = "done"
    /\ UNCHANGED <<csLines, csLimit, csCache, csCursor, csEmbedded>>

\* fetchEmbedding resolves for a batch; after the last batch the sites are
\* ranked and returned.
CallSitesBatchOk ==
    /\ UNCHANGED notCall
    /\ cspc = "embedding"
    /\ LET batch == Slice(csUncached, csCursor, csCursor + GetEmbeddingBatchSize(0))
           lines == {batch[k].line : k \in 1..Len(batch)}
           cache == [i \in 1..Len(csCache) |->
                        IF i \in lines
                        THEN [hash |-> CallSiteHash(i), cosine |-> csLines[i].cosine]
                        ELSE csCache[i]]
           next == csCursor + GetEmbeddingBatchSize(0)
       IN /\ csCache' = cache
          /\ csEmbedded' = csEmbedded \cup lines
          /\ csCursor' = next
          /\ IF next < Len(csUncached)
             THEN UNCHANGED <<csOut, cspc>>
             ELSE /\ csOut' = CallSitesResult(cache, csSampled, Candidates(csLines), csLimit)
                  /\ cspc' = "done"
    /\ UNCHANGED <<csLines, csLimit, csSampled, csUncached>>

\* fetchEmbedding rejects for a batch: rankCallSites rejects.
CallSitesBatchFails ==
    /\ UNCHANGED notCall
    /\ cspc = "embedding"
    /\ csEmbedded' = csEmbedded \cup
           {csUncached[k].line :
               k \in (csCursor + 1)..Min(csCursor + GetEmbeddingBatchSize(0), Len(csUncached))}
    /\ cspc' = "failed"
    /\ UNCHANGED <<csLines, csLimit, csCache, csSampled, csUncached, csCursor, csOut>>

CallNext ==
    \/ CallSitesBegin
    \/ CallSitesBatchOk
    \/ CallSitesBatchFails

(***************************************************************************)
(* Claims about rankCallSites                                              *)
(***************************************************************************)
\* C12: for C candidate call sites and a limit L >= 1 the ranker returns
\* min(L, C) sites, in descending order of score, and total = C.
C12_SitesAndTotal ==
    cspc = "done" =>
        /\ Len(csOut.sites) = Min(csLimit, Len(Candidates(csLines)))
        /\ csOut.total = Len(Candidates(csLines))
        /\ \A k \in 1..(Len(csOut.sites) - 1) :
               csOut.sites[k].score >= csOut.sites[k + 1].score
        /\ \A k \in 1..Len(csOut.sites) :
               /\ csLines[csOut.sites[k].line].kind = "call"
               /\ \A j \in 1..Len(csOut.sites) :
                      csOut.sites[j].line = csOut.sites[k].line => j = k

\* More candidates than the embedding budget, a limit of 2: two sites of
\* different score are returned.
C12_Witness ==
    /\ cspc = "done"
    /\ csLimit = 2
    /\ Len(Candidates(csLines)) > EmbedBudget(csLimit)
    /\ Len(csOut.sites) = 2
    /\ csOut.sites[1].score > csOut.sites[2].score
    /\ csEmbedded # {}

\* The candidates whose keyword score is higher than that of the given line.
HigherKeywordScore(line) ==
    {k \in 1..Len(csLines) :
        csLines[k].kind = "call" /\ csLines[k].keywordScore > csLines[line].keywordScore}

\* C26: the call-site ranker hands at most max(30, 4 * limit) call-site texts
\* to the embedding provider, whatever the number of candidates, and every
\* line it embeds or returns is a candidate among the top max(30, 4 * limit)
\* by keyword score: fewer than that many candidates have a higher keyword
\* score.
C26_EmbedBudget ==
    LET budget == IF 4 * csLimit > 30 THEN 4 * csLimit ELSE 30
        returned == IF cspc = "done"
                    THEN {csOut.sites[k].line : k \in 1..Len(csOut.sites)} ELSE {}
    IN  /\ Cardinality(csEmbedded) <= budget
        /\ \A line \in csEmbedded \cup returned :
               /\ csLines[line].kind = "call"
               /\ Cardinality(HigherKeywordScore(line)) < budget

\* More candidates than the budget of 30 and an empty cache: the ranker has
\* embedded 30 texts and returned, and a candidate was left out.
C26_Witness ==
    /\ cspc = "done"
    /\ Len(Candidates(csLines)) > 30
    /\ Cardinality(csEmbedded) = 30
    /\ Len(csOut.sites) >= 1
    /\ \E k \in 1..Len(csLines) : csLines[k].kind = "call" /\ k \notin csEmbedded

(***************************************************************************)
(* Spectral clustering: spectralCluster                                    *)
(*                                                                         *)
(* The eigenvalue decomposition is an input of the model: the eigenvalues  *)
(* and, for each vector, its row of the eigenvector matrix.  Rows are      *)
(* integer vectors of one length, which stand for the normalized rows, and *)
(* the centroids of kMeans are kept as a sum and a count, so that every    *)
(* comparison of distances is exact.  Indices start at 1.                  *)
(***************************************************************************)
\* Bound of the clustering model: vectors handed to spectralCluster.
MaxVectors == 6

\* A sequence given by a rule for its elements, as the array of its elements.
Array(elements) == SubSeq(elements, 1, Len(elements))

\* Math.floor(Math.sqrt(n))
FloorSqrt(n) == CHOOSE r \in 0..n : r * r <= n /\ (r + 1) * (r + 1) > n

RECURSIVE InsertAscending(_, _)
InsertAscending(sorted, value) ==
    IF sorted = <<>> THEN <<value>>
    ELSE IF value < Head(sorted) THEN <<value>> \o sorted
    ELSE <<Head(sorted)>> \o InsertAscending(Tail(sorted), value)

RECURSIVE SortAscending(_)
SortAscending(values) ==
    IF values = <<>> THEN <<>>
    ELSE InsertAscending(SortAscending(SubSeq(values, 1, Len(values) - 1)),
                         values[Len(values)])

\* The loop of findOptimalK from k to limit over the sorted eigenvalues.
\* A scan in which a later gap of the same size replaces the best one.
RECURSIVE BestGapFromLast(_, _, _, _, _)
BestGapFromLast(sorted, k, limit, bestGap, bestK) ==
    IF k > limit THEN bestK
    ELSE LET gap == sorted[k + 1] - sorted[k]
         IN  IF gap >= bestGap THEN BestGapFromLast(sorted, k + 1, limit, gap, k)
             ELSE BestGapFromLast(sorted, k + 1, limit, bestGap, bestK)

RECURSIVE BestGapFrom(_, _, _, _, _)
BestGapFrom(sorted, k, limit, bestGap, bestK) ==
    IF k > limit THEN bestK
    ELSE LET gap == sorted[k + 1] - sorted[k]
         IN  IF gap > bestGap THEN BestGapFrom(sorted, k + 1, limit, gap, k)
             ELSE BestGapFrom(sorted, k + 1, limit, bestGap, bestK)

\* A variant that scans every gap, up to the last eigenvalue.
FindOptimalKUnbounded(eigenvalues, maxK) ==
    LET sorted == SortAscending(eigenvalues)
    IN  IF Len(sorted) <= 2 THEN Min(2, Len(sorted))
        ELSE BestGapFrom(sorted, 2, Len(sorted) - 1, 0, 2)

FindOptimalK(eigenvalues, maxK) ==
    LET sorted == SortAscending(eigenvalues)
    IN  IF Len(sorted) <= 2 THEN Min(2, Len(sorted))
        ELSE BestGapFrom(sorted, 2, Min(maxK, Len(sorted) - 1), 0, 2)

RECURSIVE SumSquares(_, _, _)
SumSquares(a, b, d) ==
    IF d > Len(a) THEN 0
    ELSE (a[d] - b[d]) * (a[d] - b[d]) + SumSquares(a, b, d + 1)

\* The squared distance of two rows.
Distance(a, b) == SumSquares(a, b, 1)

\* A centroid is the sum of rows divided by their count.  The squared
\* distance of row x to it, multiplied by the square of the count.
ScaledDistance(x, centroid) ==
    Distance(Array([d \in 1..Len(x) |-> centroid.count * x[d]]), centroid.sum)

\* dist(x, a) < dist(x, b)
Nearer(x, a, b) ==
    ScaledDistance(x, a) * b.count * b.count < ScaledDistance(x, b) * a.count * a.count

SetMin(set) == CHOOSE x \in set : \A y \in set : x <= y
SetMax(set) == CHOOSE x \in set : \A y \in set : x >= y

\* The seeding loop of kMeans: the rows taken as first centroids.
RECURSIVE SeedRows(_, _, _)
SeedRows(data, chosen, k) ==
    IF Len(chosen) >= k THEN chosen
    ELSE LET unused == (1..Len(data)) \ SeqToSet(chosen)
             minDist(i) == SetMin({Distance(data[i], data[chosen[c]]) : c \in 1..Len(chosen)})
             best == IF unused = {} THEN 1
                     ELSE SetMin({i \in unused : \A j \in unused : minDist(i) >= minDist(j)})
         IN  SeedRows(data, Append(chosen, best), k)

\* The centroid a row is assigned to: the first of the nearest.
NearestCentroid(x, centroids) ==
    SetMin({c \in 1..Len(centroids) :
               \A other \in 1..Len(centroids) : ~Nearer(x, centroids[other], centroids[c])})

Assign(data, centroids) ==
    Array([i \in 1..Len(data) |-> NearestCentroid(data[i], centroids)])

RECURSIVE SumOfMembers(_, _, _, _, _)
SumOfMembers(data, assignments, c, d, i) ==
    IF i > Len(data) THEN 0
    ELSE (IF assignments[i] = c THEN data[i][d] ELSE 0)
             + SumOfMembers(data, assignments, c, d, i + 1)

\* The centroids after the update loop: a centroid without members stays.
UpdateCentroids(data, centroids, assignments) ==
    Array([c \in 1..Len(centroids) |->
        LET members == {i \in 1..Len(data) : assignments[i] = c}
        IN  IF members = {} THEN centroids[c]
            ELSE [sum |-> Array([d \in 1..Len(data[1]) |->
                               SumOfMembers(data, assignments, c, d, 1)]),
                  count |-> Cardinality(members)]])

KMeansIterations == 50

RECURSIVE KMeansLoop(_, _, _, _)
KMeansLoop(data, centroids, assignments, iter) ==
    IF iter >= KMeansIterations THEN assignments
    ELSE LET next == Assign(data, centroids)
         IN  IF next = assignments THEN assignments
             ELSE KMeansLoop(data, UpdateCentroids(data, centroids, next), next, iter + 1)

KMeans(data, k) ==
    LET seeds == SeedRows(data, <<1>>, k)
        centroids == Array([c \in 1..Len(seeds) |-> [sum |-> data[seeds[c]], count |-> 1]])
    IN  KMeansLoop(data, centroids, Array([i \in 1..Len(data) |-> 1]), 0)

\* A variant that keeps a key for every index.
ClusterKeysRepeated(assignments, i) == SubSeq(assignments, i, Len(assignments))

\* The Map from assignment to indices, in the order of insertion.
RECURSIVE ClusterKeys(_, _)
ClusterKeys(assignments, i) ==
    IF i > Len(assignments) THEN <<>>
    ELSE LET rest == ClusterKeys(assignments, i + 1)
         IN  <<assignments[i]>> \o SelectSeq(rest, LAMBDA key : key # assignments[i])

ClustersOf(assignments) ==
    LET keys == ClusterKeys(assignments, 1)
        all == Array([i \in 1..Len(assignments) |-> i])
    IN  Array([c \in 1..Len(keys) |-> SelectSeq(all, LAMBDA i : assignments[i] = keys[c])])

\* spectralCluster, given the decomposition of the Laplacian of the vectors:
\* n vectors, eigenvalues, and rows(k), the rows of the first k eigenvectors.
SpectralCluster(n, maxClusters, eigenvalues, rows) ==
    IF n <= 1 THEN << Array([i \in 1..n |-> i]) >>
    ELSE IF n <= maxClusters THEN Array([i \in 1..n |-> <<i>>])
    ELSE LET k == FindOptimalK(eigenvalues, Min(maxClusters, Max(2, FloorSqrt(n))))
         IN  ClustersOf(KMeans(rows[k], k))

\* ---- inputs ----
MaxClusterOptions == {1, 2, 3, 20}
EigenPatterns == {"flat", "gap2", "gap3"}

\* Eigenvalues as the decomposition returns them, not sorted: all equal, or
\* with the largest gap after the second or the third smallest.
Eigenvalues(n, pattern) ==
    Array([i \in 1..n |->
        IF pattern = "flat" THEN 0
        ELSE IF pattern = "gap2" THEN (IF n + 1 - i <= 2 THEN 0 ELSE 10)
        ELSE (IF n + 1 - i <= 3 THEN n + 1 - i ELSE 10)])

\* Rows of the first two eigenvectors; further columns are 0.
RowPool == {<<5, 0>>, <<3, 4>>, <<0, 5>>}

RowsOf(base) ==
    [k \in 1..(Len(base) + 2) |->
        Array([i \in 1..Len(base) |->
                  Array([d \in 1..k |-> IF d <= 2 THEN base[i][d] ELSE 0])])]

NoClusters == <<>>

ClusterInit ==
    /\ scN \in 0..MaxVectors
    /\ scMaxClusters \in MaxClusterOptions
    /\ \E pattern \in EigenPatterns : scEigenvalues = Eigenvalues(scN, pattern)
    /\ scRows \in [1..scN -> RowPool]
    /\ scClusters = NoClusters
    /\ scpc = "ready"

ClusterIdle ==
    /\ scN = 0
    /\ scMaxClusters = 1
    /\ scEigenvalues = <<>>
    /\ scRows = <<>>
    /\ scClusters = NoClusters
    /\ scpc = "done"

\* The call of spectralCluster.
Cluster ==
    /\ UNCHANGED notCluster
    /\ scpc = "ready"
    /\ scClusters' = SpectralCluster(scN, scMaxClusters, scEigenvalues, RowsOf(scRows))
    /\ scpc' = "done"
    /\ UNCHANGED <<scN, scMaxClusters, scEigenvalues, scRows>>

ClusterNext == Cluster

(***************************************************************************)
(* Claims about spectralCluster                                            *)
(***************************************************************************)
\* Every index of 1..n is in exactly one of the clusters, once.
Partitions(clusters, n) ==
    \A i \in 1..n :
        Cardinality({<<c, p>> \in (1..Len(clusters)) \X (1..n) :
                        p <= Len(clusters[c]) /\ clusters[c][p] = i}) = 1

\* C16: spectralCluster returns at least 1 and at most maxClusters clusters
\* for a non-empty vector set and maxClusters >= 1.
C16_ClusterCount ==
    scpc = "done" /\ scN >= 1 =>
        Len(scClusters) >= 1 /\ Len(scClusters) <= scMaxClusters

(***************************************************************************)
(* Cluster tree: buildHierarchy and labelSiblingClusters                   *)
(*                                                                         *)
(* A file is its relative path, a directory and a name.  A node of the     *)
(* tree is a record with its place (the child numbers from the root), its  *)
(* depth, its files as numbers of the input files, and its label.          *)
(***************************************************************************)
MAX_FILES_PER_LEAF == 20

\* Bound of the tree model: files handed to buildHierarchy.
MaxFiles == 24

FileCounts == {1, MAX_FILES_PER_LEAF + 1, MaxFiles}
DepthOptions == {0, 1, 2}
TreeClusterOptions == {1, 2, 3, MaxFiles + 6}
PathLayouts == {"one directory", "two directories", "index files"}
RowPatterns == {"same", "alternate", "thirds", "last differs"}

FilePath(i, layout) ==
    IF layout = "one directory" THEN [dir |-> "src", name |-> i]
    ELSE IF layout = "two directories"
    THEN [dir |-> IF i % 2 = 0 THEN "src" ELSE "lib", name |-> i]
    ELSE [dir |-> IF i % 3 = 0 THEN "src" ELSE IF i % 3 = 1 THEN "lib" ELSE "test",
          name |-> "index.ts"]

\* The rows of the eigenvectors the decomposition gives for n vectors.
PatternRows(n, pattern) ==
    Array([i \in 1..n |->
        IF pattern = "same" THEN <<5, 0>>
        ELSE IF pattern = "alternate" THEN (IF i % 2 = 0 THEN <<5, 0>> ELSE <<0, 5>>)
        ELSE IF pattern = "thirds"
        THEN (IF i % 3 = 0 THEN <<5, 0>> ELSE IF i % 3 = 1 THEN <<3, 4>> ELSE <<0, 5>>)
        ELSE (IF i = n THEN <<0, 5>> ELSE <<5, 0>>)])

NullPattern == <<>>

\* findPathPattern for paths of a directory and a name.
FindPathPattern(paths) ==
    IF Len(paths) <= 1 THEN NullPattern
    ELSE LET sameDir == \A k \in 1..Len(paths) : paths[k].dir = paths[1].dir
             sameName == \A k \in 1..Len(paths) : paths[k].name = paths[1].name
         IN  IF sameDir /\ sameName THEN <<paths[1].dir, paths[1].name>>
             ELSE IF sameDir THEN <<paths[1].dir, "*">>
             ELSE IF sameName THEN <<"*", paths[1].name>>
             ELSE NullPattern

PathsOf(numbers) == [k \in 1..Len(numbers) |-> hFiles[numbers[k]]]

Placeholder(i) == <<"Cluster", i>>
UndefinedLabel == <<"undefined">>

\* What the text-generation collaborator may answer for n clusters: an array
\* of n objects with a label, of n objects with an empty label, of n strings,
\* an array with an object less or an object more, an array holding null,
\* text without an array, and text with brackets that is not JSON.
ChatResponses ==
    {"labels", "empty labels", "strings", "short", "long", "null entry", "no array",
     "not json"}

\* The try block of labelSiblingClusters for a response that neither lacks an
\* array nor makes JSON.parse or the map throw.
ParsedLabels(patterns, response) ==
    LET count == IF response = "short" THEN Len(patterns) - 1 ELSE Len(patterns)
    IN  [i \in 1..count |->
            LET base == IF response \in {"labels", "short"} THEN <<"label", i>>
                        ELSE Placeholder(i)
            IN  IF patterns[i] # NullPattern THEN <<base, patterns[i]>> ELSE base]

\* The catch block.
CaughtLabels(patterns) ==
    [i \in 1..Len(patterns) |->
        IF patterns[i] # NullPattern THEN patterns[i] ELSE Placeholder(i)]

\* labelSiblingClusters for two or more clusters, given the response.
LabelSiblingClusters(patterns, response) ==
    IF response = "no array" THEN [i \in 1..Len(patterns) |-> Placeholder(i)]
    ELSE IF response \in {"long", "null entry", "not json"} THEN CaughtLabels(patterns)
    ELSE ParsedLabels(patterns, response)

NoLabeling == <<>>

RootCall(n) == [path |-> <<>>, files |-> [i \in 1..n |-> i], depth |-> 0,
                label |-> <<"Project">>, response |-> "none"]

HierInit ==
    /\ \E n \in FileCounts : \E layout \in PathLayouts :
           /\ hFiles = [i \in 1..n |-> FilePath(i, layout)]
           /\ hTodo = <<RootCall(n)>>
    /\ hMaxClusters \in TreeClusterOptions
    /\ hMaxDepth \in DepthOptions
    /\ hSpectrum \in [eigenvalues : EigenPatterns, rows : RowPatterns]
    /\ hNodes = {}
    /\ hLabeling = NoLabeling
    /\ hpc = "building"

HierIdle ==
    /\ hFiles = <<>>
    /\ hTodo = <<>>
    /\ hMaxClusters = 1
    /\ hMaxDepth = 0
    /\ hSpectrum = [eigenvalues |-> "flat", rows |-> "same"]
    /\ hNodes = {}
    /\ hLabeling = NoLabeling
    /\ hpc = "idle"

Leaf(call, oneCluster) ==
    [path |-> call.path, depth |-> call.depth, files |-> call.files, leaf |-> TRUE,
     label |-> call.label, response |-> call.response, single |-> oneCluster,
     pattern |-> FindPathPattern(PathsOf(call.files))]

Inner(call) ==
    [path |-> call.path, depth |-> call.depth, files |-> <<>>, leaf |-> FALSE,
     label |-> call.label, response |-> call.response, single |-> FALSE,
     pattern |-> FindPathPattern(PathsOf(call.files))]

\* A variant with a threshold one file larger.
IsLeafCallOneMore(call) ==
    Len(call.files) <= MAX_FILES_PER_LEAF + 1 \/ call.depth >= hMaxDepth

\* if (files.length <= MAX_FILES_PER_LEAF || depth >= maxDepth)
IsLeafCall(call) == Len(call.files) <= MAX_FILES_PER_LEAF \/ call.depth >= hMaxDepth

\* A call of buildHierarchy that returns a leaf without clustering.
BuildLeaf ==
    /\ UNCHANGED notHier
    /\ hpc = "building" /\ hTodo # <<>>
    /\ IsLeafCall(Head(hTodo))
    /\ hNodes' = hNodes \cup {Leaf(Head(hTodo), FALSE)}
    /\ hTodo' = Tail(hTodo)
    /\ hpc' = IF Tail(hTodo) = <<>> THEN "done" ELSE "building"
    /\ UNCHANGED <<hFiles, hMaxClusters, hMaxDepth, hSpectrum, hLabeling>>

\* A call of buildHierarchy that clusters its vectors: with one cluster it
\* returns a leaf, with more it asks for the labels of the clusters.
BuildSplit ==
    /\ UNCHANGED notHier
    /\ hpc = "building" /\ hTodo # <<>>
    /\ ~IsLeafCall(Head(hTodo))
    /\ \E clusters \in {SpectralCluster(Len(Head(hTodo).files), hMaxClusters,
                           Eigenvalues(Len(Head(hTodo).files), hSpectrum.eigenvalues),
                           RowsOf(PatternRows(Len(Head(hTodo).files), hSpectrum.rows)))} :
           IF Len(clusters) <= 1
           THEN /\ hNodes' = hNodes \cup {Leaf(Head(hTodo), TRUE)}
                /\ hTodo' = Tail(hTodo)
                /\ hpc' = IF Tail(hTodo) = <<>> THEN "done" ELSE "building"
                /\ UNCHANGED hLabeling
           ELSE /\ hLabeling' = Array([c \in 1..Len(clusters) |->
                                    Array([k \in 1..Len(clusters[c]) |->
                                              Head(hTodo).files[clusters[c][k]]])])
                /\ hpc' = "labeling"
                /\ UNCHANGED <<hNodes, hTodo>>
    /\ UNCHANGED <<hFiles, hMaxClusters, hMaxDepth, hSpectrum>>

\* The labels are in: the recursive calls for the children are pending, in
\* order, before the calls that were pending.
Labeled(labels, response) ==
    LET call == Head(hTodo)
        children == [c \in 1..Len(hLabeling) |->
                        [path |-> Append(call.path, c), files |-> hLabeling[c],
                         depth |-> call.depth + 1,
                         label |-> IF c <= Len(labels) THEN labels[c] ELSE UndefinedLabel,
                         response |-> response]]
    IN  /\ hNodes' = hNodes \cup {Inner(call)}
        /\ hTodo' = children \o Tail(hTodo)
        /\ hLabeling' = NoLabeling
        /\ hpc' = "building"

ChildPatterns == [c \in 1..Len(hLabeling) |-> FindPathPattern(PathsOf(hLabeling[c]))]

\* chatCompletion resolves.
ChatResolves(response) ==
    /\ UNCHANGED notHier
    /\ hpc = "labeling"
    /\ Labeled(LabelSiblingClusters(ChildPatterns, response), response)
    /\ UNCHANGED <<hFiles, hMaxClusters, hMaxDepth, hSpectrum>>

\* chatCompletion rejects: the collaborator is unavailable.
ChatRejects ==
    /\ UNCHANGED notHier
    /\ hpc = "labeling"
    /\ Labeled(CaughtLabels(ChildPatterns), "rejected")
    /\ UNCHANGED <<hFiles, hMaxClusters, hMaxDepth, hSpectrum>>

HierNext ==
    \/ BuildLeaf
    \/ BuildSplit
    \/ \E response \in ChatResponses : ChatResolves(response)
    \/ ChatRejects

(***************************************************************************)
(* Claims about the cluster tree                                           *)
(***************************************************************************)
Leaves == {node \in hNodes : node.leaf}

\* The places of file i in the leaves: a leaf and a position in its files.
PlacesOf(i) ==
    {<<node, p>> \in Leaves \X (1..Len(hFiles)) :
        p <= Len(node.files) /\ node.files[p] = i}

\* C13: clustering loses and duplicates nothing: spectralCluster assigns
\* every input index to exactly one returned cluster, the clusters handed to
\* the recursive calls hold every file of the call once, and every input
\* file is in exactly one leaf of the tree buildHierarchy returns.
C13_NothingLostOrDuplicated ==
    /\ scpc = "done" /\ scClusters # NoClusters => Partitions(scClusters, scN)
    /\ hpc = "labeling" =>
           \A k \in 1..Len(Head(hTodo).files) :
               Cardinality({<<c, p>> \in (1..Len(hLabeling)) \X (1..Len(hFiles)) :
                               /\ p <= Len(hLabeling[c])
                               /\ hLabeling[c][p] = Head(hTodo).files[k]}) = 1
    /\ hpc = "done" => \A i \in 1..Len(hFiles) : Cardinality(PlacesOf(i)) = 1

\* A tree with a split below the root and three leaves or more.
C13_Witness ==
    /\ hpc = "done"
    /\ Cardinality(Leaves) >= 3
    /\ \E node \in hNodes : ~node.leaf /\ node.depth = 1
    /\ \E node \in Leaves : Len(node.files) >= 2

\* C14: every leaf of the tree holds at most MAX_FILES_PER_LEAF files, for
\* any number of files, maxDepth and maxClusters.
C14_LeafSize ==
    \A node \in Leaves : Len(node.files) <= MAX_FILES_PER_LEAF

\* C14, amended: a leaf holds at most MAX_FILES_PER_LEAF files unless it is
\* at the maximum depth or its vectors came back as one cluster.
C14_LeafSizeUnlessDeepOrSingle ==
    \A node \in Leaves :
        \/ Len(node.files) <= MAX_FILES_PER_LEAF
        \/ node.depth >= hMaxDepth
        \/ node.single

\* Below a root that was split, a leaf at the maximum depth holds more
\* than MAX_FILES_PER_LEAF files, next to a leaf within the bound.
C14_Witness ==
    /\ hpc = "done"
    /\ hMaxDepth >= 1
    /\ \E node \in Leaves :
           /\ Len(node.files) > MAX_FILES_PER_LEAF
           /\ node.depth = hMaxDepth
           /\ ~node.single
    /\ \E node \in Leaves : node.depth >= 1 /\ Len(node.files) <= MAX_FILES_PER_LEAF

\* The responses to which the fallback applies: the collaborator is
\* unavailable or throws, or its output has no array or is not JSON.
FallbackResponses == {"rejected", "no array", "not json"}

\* C15: labeling never aborts clustering and yields one label per sibling
\* cluster; when the collaborator is unavailable, throws or returns output
\* that cannot be parsed as the label array, each cluster is labelled with
\* its path pattern if it has one and with a numbered placeholder otherwise.
C15_FallbackLabels ==
    \A node \in hNodes :
        node.path # <<>> =>
            /\ node.label # UndefinedLabel
            /\ node.response \in FallbackResponses =>
                   node.label = IF node.pattern # NullPattern THEN node.pattern
                                ELSE Placeholder(node.path[Len(node.path)])

\* C16, amended: spectralCluster returns at least 1 cluster and at most
\* max(2, maxClusters) clusters for a non-empty vector set and
\* maxClusters >= 1, called directly or by buildHierarchy: with more
\* vectors than maxClusters the eigengap heuristic never chooses fewer
\* than 2.
C16_ClusterCountTwoOrMax ==
    /\ scpc = "done" /\ scN >= 1 =>
           Len(scClusters) >= 1 /\ Len(scClusters) <= Max(2, scMaxClusters)
    /\ hpc = "labeling" =>
           Len(hLabeling) >= 1 /\ Len(hLabeling) <= Max(2, hMaxClusters)

\* More vectors than maxClusters = 3, the largest gap after the third
\* eigenvalue, and kMeans fills three clusters.
C16_Witness ==
    /\ hpc = "labeling"
    /\ hMaxClusters = 3
    /\ Len(Head(hTodo).files) > hMaxClusters
    /\ Len(hLabeling) = 3
    /\ \A c \in 1..3 : Len(hLabeling[c]) >= 1

\* The k of the eigengap heuristic for n vectors: among the k of
\* 2..min(maxClusters, max(2, floor(sqrt(n))), n - 1), the first at which the
\* gap between the k-th and the (k+1)-th smallest eigenvalue is the largest,
\* provided that gap is positive; 2 when there is no such k.
EigengapK(eigenvalues, maxClusters, n) ==
    LET sorted == SortAscending(eigenvalues)
        range == 2..Min(Min(maxClusters, Max(2, FloorSqrt(n))), n - 1)
        Gap(k) == sorted[k + 1] - sorted[k]
        largest == {k \in range : Gap(k) > 0 /\ \A other \in range : Gap(other) <= Gap(k)}
    IN  IF largest = {} THEN 2 ELSE SetMin(largest)

\* The calls of spectralCluster that have returned: the direct call, and the
\* call of buildHierarchy whose clusters are being labeled.
ClusterCalls ==
    (IF scpc = "done" /\ scN >= 2
     THEN {[n |-> scN, maxClusters |-> scMaxClusters, eigenvalues |-> scEigenvalues,
            count |-> Len(scClusters)]}
     ELSE {})
    \cup
    (IF hpc = "labeling"
     THEN {[n |-> Len(Head(hTodo).files), maxClusters |-> hMaxClusters,
            eigenvalues |-> Eigenvalues(Len(Head(hTodo).files), hSpectrum.eigenvalues),
            count |-> Len(hLabeling)]}
     ELSE {})

\* C27 as stated: for n >= 2 vectors the number of clusters spectralCluster
\* produces is the k of the eigengap heuristic, so it never exceeds
\* max(2, min(maxClusters, floor(sqrt(n)))).
C27_CountIsEigengapK ==
    \A call \in ClusterCalls :
        /\ call.count = EigengapK(call.eigenvalues, call.maxClusters, call.n)
        /\ call.count <= Max(2, Min(call.maxClusters, FloorSqrt(call.n)))

\* C27 with its two exceptions: with n <= maxClusters spectralCluster returns
\* n clusters of one vector each and computes no eigenvalues; with
\* n > maxClusters it returns at least one and at most k clusters, k being
\* the k of the eigengap heuristic and so at most
\* max(2, min(maxClusters, floor(sqrt(n)))): k-means may leave a cluster
\* empty, and an empty cluster is not returned.
C27_CountAtMostEigengapK ==
    \A call \in ClusterCalls :
        IF call.n <= call.maxClusters
        THEN call.count = call.n
        ELSE /\ call.count >= 1
             /\ call.count <= EigengapK(call.eigenvalues, call.maxClusters, call.n)
             /\ EigengapK(call.eigenvalues, call.maxClusters, call.n)
                    <= Max(2, Min(call.maxClusters, FloorSqrt(call.n)))

\* With more than 20 vectors, maxClusters = 3 and the largest gap after the
\* third eigenvalue the heuristic chooses k = 3, and three clusters come back.
C27_Witness ==
    /\ hpc = "labeling"
    /\ hSpectrum.eigenvalues = "gap3"
    /\ \E call \in ClusterCalls :
           /\ call.n > call.maxClusters
           /\ EigengapK(call.eigenvalues, call.maxClusters, call.n) = 3
           /\ call.count = 3

(***************************************************************************)
(* The disk cache as SearchIndex.index finds it: loadEmbeddingCache        *)
(*                                                                         *)
(* The cache file is missing, unreadable, not JSON, or JSON: null, a       *)
(* number, an array, or an object with an entry or none for each path.  An *)
(* entry is null, or an object with a hash and a vector, or an object with *)
(* a hash only.                                                            *)
(***************************************************************************)
NullEntry == [isNull |-> TRUE]

\* The entry index() writes for a text, and the same without its vector.
EntryFor(text) == [hash |-> HashContent(text), vector |-> EmbedText(text)]
HashOnlyFor(text) == [hash |-> HashContent(text)]

CacheEntries ==
    {NoEntry, NullEntry} \cup {EntryFor(text) : text \in FileTexts}
        \cup {HashOnlyFor(text) : text \in FileTexts}

NoEntries == [p \in Paths |-> NoEntry]
EmptyCache == [kind |-> "map", entries |-> NoEntries]

CacheFiles ==
    {[kind |-> kind, entries |-> NoEntries] :
        kind \in {"missing", "unreadable", "not json", "null", "number", "array"}}
        \cup {[kind |-> "map", entries |-> entries] : entries \in [Paths -> CacheEntries]}

\* The documents of the first n files.
DocsOf(n, texts) == [i \in 1..n |-> [path |-> FilePaths[i], text |-> texts[FilePaths[i]]]]

\* loadEmbeddingCache: readFile or JSON.parse throws and {} is returned, or
\* the value JSON.parse returns is returned as it is.
LoadEmbeddingCache(file) ==
    IF file.kind \in {"missing", "unreadable", "not json"} THEN EmptyCache ELSE file

\* cache[doc.path] throws: the cache is null.
LookupThrows(cache) == cache.kind = "null"

\* cache[doc.path] of a number or an array is undefined.
EntryAt(cache, path) == IF cache.kind = "map" THEN cache.entries[path] ELSE NoEntry

\* cache[doc.path]?.hash === hash
LoadedHit(cache, doc) ==
    /\ "hash" \in DOMAIN EntryAt(cache, doc.path)
    /\ EntryAt(cache, doc.path).hash = HashContent(doc.text)

\* cache[doc.path].vector, undefined when the entry has none.
LoadedVector(cache, doc) ==
    IF "vector" \in DOMAIN EntryAt(cache, doc.path)
    THEN EntryAt(cache, doc.path).vector ELSE NoVector

\* The loop of index() over the documents, for a cache that does not throw.
LoadedVectors(cache, docs) ==
    [i \in 1..Len(docs) |->
        IF LoadedHit(cache, docs[i]) THEN LoadedVector(cache, docs[i]) ELSE NoVector]

LoadedUncached(cache, docs) ==
    SelectSeq([i \in 1..Len(docs) |-> i], LAMBDA i : ~LoadedHit(cache, docs[i]))

\* cache[path] = {...} throws in a module, which is strict code, when the
\* cache is a number.
StoreThrows(cache) == cache.kind = "number"

\* The cache after the entries of a batch are stored: properties of the
\* object, or of the array.
StoredBatch(cache, docs, batch) ==
    [cache EXCEPT !.entries =
        [p \in Paths |->
            IF \E k \in 1..Len(batch) : docs[batch[k]].path = p
            THEN EntryFor(docs[CHOOSE i \in SeqToSet(batch) : docs[i].path = p].text)
            ELSE @[p]]]

\* JSON.stringify(cache): of an array, its elements without its properties.
Stringified(cache) ==
    IF cache.kind = "array" THEN [kind |-> "array", entries |-> NoEntries] ELSE cache

NothingSaved == [kind |-> "not written", entries |-> NoEntries]

LoadInit ==
    /\ lcFile \in CacheFiles
    /\ \E n \in 0..Len(FilePaths) : \E texts \in [Paths -> FileTexts] :
           lcDocs = DocsOf(n, texts)
    /\ lcCache = EmptyCache
    /\ lcVectors = <<>>
    /\ lcUncached = <<>>
    /\ lcB = 0
    /\ lcSaved = NothingSaved
    /\ lcpc = "load"

LoadIdle ==
    /\ lcFile = [kind |-> "missing", entries |-> NoEntries]
    /\ lcDocs = <<>>
    /\ lcCache = EmptyCache
    /\ lcVectors = <<>>
    /\ lcUncached = <<>>
    /\ lcB = 0
    /\ lcSaved = NothingSaved
    /\ lcpc = "done"

\* loadCache resolves.
LoadCacheFile ==
    /\ UNCHANGED notLoad
    /\ lcpc = "load"
    /\ lcCache' = LoadEmbeddingCache(lcFile)
    /\ lcpc' = "split"
    /\ UNCHANGED <<lcFile, lcDocs, lcVectors, lcUncached, lcB, lcSaved>>

\* The loop over the documents; with nothing to embed index() resolves.
SplitDocs ==
    /\ UNCHANGED notLoad
    /\ lcpc = "split"
    /\ IF LookupThrows(lcCache) /\ Len(lcDocs) > 0
       THEN /\ lcpc' = "rejected"
            /\ lcVectors' = [i \in 1..Len(lcDocs) |-> NoVector]
            /\ UNCHANGED lcUncached
       ELSE /\ lcVectors' = LoadedVectors(lcCache, lcDocs)
            /\ lcUncached' = LoadedUncached(lcCache, lcDocs)
            /\ lcpc' = IF Len(LoadedUncached(lcCache, lcDocs)) > 0 THEN "embed" ELSE "done"
    /\ UNCHANGED <<lcFile, lcDocs, lcCache, lcB, lcSaved>>

\* fetchEmbedding resolves for a batch: its vectors are stored in the index
\* and in the cache.
StoreBatch ==
    /\ UNCHANGED notLoad
    /\ lcpc = "embed"
    /\ LET batch == Slice(lcUncached, lcB, lcB + GetEmbeddingBatchSize(0))
           first == IF StoreThrows(lcCache) THEN <<Head(batch)>> ELSE batch
       IN /\ lcVectors' = VectorsAfterBatch(lcVectors, lcDocs, first)
          /\ IF StoreThrows(lcCache)
             THEN lcpc' = "rejected" /\ UNCHANGED <<lcCache, lcB>>
             ELSE /\ lcCache' = StoredBatch(lcCache, lcDocs, batch)
                  /\ lcB' = lcB + GetEmbeddingBatchSize(0)
                  /\ lcpc' = IF lcB + GetEmbeddingBatchSize(0) < Len(lcUncached)
                             THEN "embed" ELSE "save"
    /\ UNCHANGED <<lcFile, lcDocs, lcUncached, lcSaved>>

\* saveCache resolves and index() with it.
SaveCacheFile ==
    /\ UNCHANGED notLoad
    /\ lcpc = "save"
    /\ lcSaved' = Stringified(lcCache)
    /\ lcpc' = "done"
    /\ UNCHANGED <<lcFile, lcDocs, lcCache, lcVectors, lcUncached, lcB>>

LoadNext ==
    \/ LoadCacheFile
    \/ SplitDocs
    \/ StoreBatch
    \/ SaveCacheFile

(***************************************************************************)
(* Claims about loading the disk cache                                     *)
(***************************************************************************)
\* A map of {hash, vector} entries.
WellFormed(file) ==
    /\ file.kind = "map"
    /\ \A p \in Paths :
           file.entries[p] = NoEntry \/ DOMAIN file.entries[p] = {"hash", "vector"}

\* What index() builds with no cache file: the embedding of every document.
BuiltWithoutCache(docs) == [i \in 1..Len(docs) |-> EmbedText(docs[i].text)]

\* C17: loading the disk cache never fails: when the cache file is missing,
\* unreadable, or does not hold a well-formed map of {hash, vector} entries,
\* the cache is treated as empty and the index build succeeds with the same
\* result as with no cache file.
C17_LoadNeverFails ==
    ~WellFormed(lcFile) =>
        /\ lcpc # "rejected"
        /\ lcpc = "done" => lcVectors = BuiltWithoutCache(lcDocs)

(***************************************************************************)
(* Restore points: createRestorePoint, restorePoint and proposeCommit      *)
(*                                                                         *)
(* A path is the sequence of its segments.  Two callers make calls that    *)
(* may overlap; a step is what a call does up to its next await.           *)
(***************************************************************************)
\* Bound of the restore-point model: calls and file changes in a run.
MaxCalls == 3

\* if (manifest.length > 100)
MAX_RESTORE_POINTS == 100

Callers == {1, 2}
NestedPath == <<"src", "a.ts">>
FlatPath == <<"src__a.ts">>
RpPaths == {NestedPath, FlatPath}
FileLists == {<<NestedPath>>, <<NestedPath, FlatPath>>}
\* What a change from outside leaves in a file, unless it deletes it.
ChangedContents == {"B"}
Absent == "absent"

\* A proposed content: its text, and the no-comments errors validation
\* finds in it.
ProposedContents == {[text |-> "B", comments |-> n] : n \in {5, 6}}
NoContent == [text |-> "", comments |-> 0]

\* The id "rp-nonexistent", which createRestorePoint never draws.
UnknownId == 0

\* file.replace(/[\\/]/g, "__")
RECURSIVE BackupName(_)
BackupName(path) ==
    IF Len(path) = 1 THEN path[1] ELSE path[1] \o "__" \o BackupName(Tail(path))

\* writeFile(backupPath, content)
WriteBackup(backups, id, name, content) ==
    {b \in backups : ~(b.id = id /\ b.name = name)}
        \cup {[id |-> id, name |-> name, content |-> content]}

\* readFile(backupPath) succeeds.
HasBackup(backups, id, name) == \E b \in backups : b.id = id /\ b.name = name
ReadBackup(backups, id, name) ==
    (CHOOSE b \in backups : b.id = id /\ b.name = name).content

NoPoint == [id |-> UnknownId, files |-> <<>>]

\* A variant that takes the latest point when no point has the id.
FindPointOrLatest(manifest, pointId) ==
    IF \E k \in 1..Len(manifest) : manifest[k].id = pointId
    THEN manifest[CHOOSE k \in 1..Len(manifest) : manifest[k].id = pointId]
    ELSE IF manifest # <<>> THEN manifest[Len(manifest)] ELSE NoPoint

\* manifest.find((p) => p.id === pointId)
FindPoint(manifest, pointId) ==
    IF \E k \in 1..Len(manifest) : manifest[k].id = pointId
    THEN manifest[CHOOSE k \in 1..Len(manifest) :
                      /\ manifest[k].id = pointId
                      /\ \A j \in 1..(k - 1) : manifest[j].id # pointId]
    ELSE NoPoint

\* A variant that evicts the newest entries.
PushedKeepsOldest(manifest, point) ==
    LET all == Append(manifest, point)
    IN  IF Len(all) > MAX_RESTORE_POINTS THEN SubSeq(all, 1, MAX_RESTORE_POINTS) ELSE all

\* manifest.push(point) and the splice that keeps the last 100.
Pushed(manifest, point) ==
    LET all == Append(manifest, point)
    IN  IF Len(all) > MAX_RESTORE_POINTS
        THEN SubSeq(all, Len(all) - MAX_RESTORE_POINTS + 1, Len(all))
        ELSE all

\* A variant that rejects nothing.
RejectsNothing(content) == FALSE

\* if (commentErrors.length > 5)
Rejects(content) == content.comments > 5

IdleCall ==
    [op |-> "none", pc |-> "idle", id |-> UnknownId, files |-> <<>>, idx |-> 0,
     manifest |-> <<>>, content |-> NoContent, restored |-> <<>>,
     result |-> "none", saved |-> FALSE, wrote |-> FALSE, known |-> FALSE,
     after |-> <<>>]

ShadowInit ==
    /\ \E content \in {Absent, "A"} :
           rpFiles = [p \in RpPaths |-> IF p = NestedPath THEN content ELSE "B"]
    /\ rpManifest = <<>>
    /\ rpBackups = {}
    /\ rpCall = [c \in Callers |-> IdleCall]
    /\ rpNextId = 1
    /\ rpCallsLeft = MaxCalls
    /\ rpSnap = <<>>

ShadowIdle ==
    /\ rpFiles = [p \in RpPaths |-> Absent]
    /\ rpManifest = <<>>
    /\ rpBackups = {}
    /\ rpCall = [c \in Callers |-> IdleCall]
    /\ rpNextId = 1
    /\ rpCallsLeft = 0
    /\ rpSnap = <<>>

MayCall(c) == rpCall[c].pc \in {"idle", "done", "failed"} /\ rpCallsLeft > 0

\* createRestorePoint up to its first readFile: the id is drawn.
Created(c, op, list, content) ==
    /\ rpCall' = [rpCall EXCEPT ![c] =
           [IdleCall EXCEPT !.op = op, !.pc = "backup", !.id = rpNextId,
                            !.files = list, !.idx = 1, !.content = content]]
    /\ rpNextId' = rpNextId + 1
    /\ rpSnap' = Append(rpSnap, rpFiles)

\* A call of createRestorePoint(rootDir, files, message).
CreateStart(c, list) ==
    /\ UNCHANGED notShadow
    /\ MayCall(c)
    /\ rpCallsLeft' = rpCallsLeft - 1
    /\ Created(c, "create", list, NoContent)
    /\ UNCHANGED <<rpFiles, rpManifest, rpBackups>>

\* The loop of createRestorePoint for one file: the file is read and its
\* backup written, or readFile throws and the file is skipped.
BackupFile(c) ==
    /\ UNCHANGED notShadow
    /\ rpCall[c].pc = "backup"
    /\ LET file == rpCall[c].files[rpCall[c].idx]
       IN /\ rpBackups' = IF rpFiles[file] # Absent
                          THEN WriteBackup(rpBackups, rpCall[c].id, BackupName(file),
                                           rpFiles[file])
                          ELSE rpBackups
          /\ rpSnap' = [rpSnap EXCEPT ![rpCall[c].id][file] = rpFiles[file]]
          /\ rpCall' = [rpCall EXCEPT ![c] =
                 [@ EXCEPT !.idx = @ + 1,
                           !.pc = IF rpCall[c].idx = Len(rpCall[c].files)
                                  THEN "loadManifest" ELSE "backup"]]
    /\ UNCHANGED <<rpFiles, rpManifest, rpNextId, rpCallsLeft>>

\* loadManifest resolves in createRestorePoint.
LoadManifestToPush(c) ==
    /\ UNCHANGED notShadow
    /\ rpCall[c].pc = "loadManifest"
    /\ rpCall[c].op \in {"create", "commit"}
    /\ rpCall' = [rpCall EXCEPT ![c] = [@ EXCEPT !.manifest = rpManifest,
                                                 !.pc = "saveManifest"]]
    /\ UNCHANGED <<rpFiles, rpManifest, rpBackups, rpNextId, rpCallsLeft, rpSnap>>

\* saveManifest resolves and createRestorePoint returns the point.
SaveManifest(c) ==
    /\ UNCHANGED notShadow
    /\ rpCall[c].pc = "saveManifest"
    /\ rpManifest' = Pushed(rpCall[c].manifest,
                            [id |-> rpCall[c].id, files |-> rpCall[c].files])
    /\ rpCall' = [rpCall EXCEPT ![c] =
           [@ EXCEPT !.saved = TRUE, !.manifest = <<>>,
                     !.pc = IF rpCall[c].op = "commit" THEN "write" ELSE "done"]]
    /\ UNCHANGED <<rpFiles, rpBackups, rpNextId, rpCallsLeft, rpSnap>>

\* A call of restorePoint(rootDir, pointId).
RestoreStart(c, pointId) ==
    /\ UNCHANGED notShadow
    /\ MayCall(c)
    /\ rpCallsLeft' = rpCallsLeft - 1
    /\ rpCall' = [rpCall EXCEPT ![c] =
           [IdleCall EXCEPT !.op = "restore", !.pc = "loadManifest", !.id = pointId]]
    /\ UNCHANGED <<rpFiles, rpManifest, rpBackups, rpNextId, rpSnap>>

\* loadManifest resolves in restorePoint: the point is looked up, and
\* restorePoint throws when there is none.
LoadManifestToFind(c) ==
    /\ UNCHANGED notShadow
    /\ rpCall[c].pc = "loadManifest"
    /\ rpCall[c].op = "restore"
    /\ LET point == FindPoint(rpManifest, rpCall[c].id)
           known == \E k \in 1..Len(rpManifest) : rpManifest[k].id = rpCall[c].id
       IN rpCall' = [rpCall EXCEPT ![c] =
              IF point = NoPoint
              THEN [@ EXCEPT !.pc = "failed", !.result = "not found", !.known = known]
              ELSE [@ EXCEPT !.files = point.files, !.idx = 1, !.known = known,
                             !.after = rpFiles,
                             !.pc = IF point.files = <<>> THEN "done" ELSE "restoring"]]
    /\ UNCHANGED <<rpFiles, rpManifest, rpBackups, rpNextId, rpCallsLeft, rpSnap>>

\* The loop of restorePoint for one file: its backup is read and written
\* over the file, or readFile throws and the file is skipped.
RestoreFile(c) ==
    /\ UNCHANGED notShadow
    /\ rpCall[c].pc = "restoring"
    /\ LET file == rpCall[c].files[rpCall[c].idx]
           name == BackupName(file)
           found == HasBackup(rpBackups, rpCall[c].id, name)
           restored == IF found
                       THEN [rpFiles EXCEPT ![file] = ReadBackup(rpBackups, rpCall[c].id, name)]
                       ELSE rpFiles
       IN /\ rpFiles' = restored
          /\ rpCall' = [rpCall EXCEPT ![c] =
                 [@ EXCEPT !.idx = @ + 1,
                           !.restored = IF found THEN Append(@, file) ELSE @,
                           !.after = restored,
                           !.pc = IF rpCall[c].idx = Len(rpCall[c].files)
                                  THEN "done" ELSE "restoring"]]
    /\ UNCHANGED <<rpManifest, rpBackups, rpNextId, rpCallsLeft, rpSnap>>

\* A call of proposeCommit: the content is validated; it is rejected with a
\* report, or createRestorePoint is called for the file.
ProposeStart(c, path, content) ==
    /\ UNCHANGED notShadow
    /\ MayCall(c)
    /\ rpCallsLeft' = rpCallsLeft - 1
    /\ IF Rejects(content)
       THEN /\ rpCall' = [rpCall EXCEPT ![c] =
                   [IdleCall EXCEPT !.op = "commit", !.pc = "done", !.files = <<path>>,
                                    !.content = content, !.result = "REJECTED",
                                    !.after = rpFiles]]
            /\ UNCHANGED <<rpNextId, rpSnap>>
       ELSE Created(c, "commit", <<path>>, content)
    /\ UNCHANGED <<rpFiles, rpManifest, rpBackups>>

\* mkdir and writeFile resolve and proposeCommit returns its report.
ProposeWrite(c) ==
    /\ UNCHANGED notShadow
    /\ rpCall[c].pc = "write"
    /\ rpFiles' = [rpFiles EXCEPT ![rpCall[c].files[1]] = rpCall[c].content.text]
    /\ rpCall' = [rpCall EXCEPT ![c] =
           [@ EXCEPT !.wrote = TRUE, !.result = "File saved", !.pc = "done",
                     !.after = [rpFiles EXCEPT ![rpCall[c].files[1]] =
                                   rpCall[c].content.text]]]
    /\ UNCHANGED <<rpManifest, rpBackups, rpNextId, rpCallsLeft, rpSnap>>

\* A file is changed or deleted by something else than these calls.
ChangeFile(path, content) ==
    /\ UNCHANGED notShadow
    /\ rpCallsLeft > 0
    /\ rpFiles[path] # content
    /\ rpFiles' = [rpFiles EXCEPT ![path] = content]
    /\ rpCallsLeft' = rpCallsLeft - 1
    /\ UNCHANGED <<rpManifest, rpBackups, rpCall, rpNextId, rpSnap>>

ShadowNext ==
    \/ \E c \in Callers :
           \/ \E list \in FileLists : CreateStart(c, list)
           \/ BackupFile(c)
           \/ LoadManifestToPush(c)
           \/ SaveManifest(c)
           \/ \E pointId \in 0..(rpNextId - 1) : RestoreStart(c, pointId)
           \/ LoadManifestToFind(c)
           \/ RestoreFile(c)
           \/ \E content \in ProposedContents : ProposeStart(c, NestedPath, content)
           \/ ProposeWrite(c)
    \/ \E content \in ChangedContents \cup {Absent} : ChangeFile(NestedPath, content)

(***************************************************************************)
(* Claims about restore points                                             *)
(***************************************************************************)
\* C18: after createRestorePoint(files) and later changes to the files,
\* restorePoint(id) returns every file listed in the point to the state it
\* had when the point was created.
C18_RestoreRoundTrip ==
    \A c \in Callers :
        rpCall[c].op = "restore" /\ rpCall[c].pc = "done" =>
            \A k \in 1..Len(rpCall[c].files) :
                rpCall[c].after[rpCall[c].files[k]] =
                    rpSnap[rpCall[c].id][rpCall[c].files[k]]

\* C19: proposeCommit has created the restore point for the file, backup and
\* manifest entry, before it writes; when it rejects the content, for more
\* than 5 unauthorized comment lines, it draws no restore point and writes
\* nothing; when it accepts, the file holds the proposed text when it
\* returns.
C19_RestorePointBeforeWrite ==
    \A c \in Callers :
        rpCall[c].op = "commit" =>
            /\ rpCall[c].content.comments > 5 =>
                   /\ rpCall[c].pc = "done"
                   /\ rpCall[c].result = "REJECTED"
                   /\ rpCall[c].id = UnknownId
                   /\ ~rpCall[c].saved /\ ~rpCall[c].wrote
            /\ rpCall[c].pc = "write" \/ rpCall[c].wrote =>
                   /\ rpCall[c].saved
                   /\ rpSnap[rpCall[c].id][rpCall[c].files[1]] # Absent =>
                          HasBackup(rpBackups, rpCall[c].id, BackupName(rpCall[c].files[1]))
            /\ rpCall[c].pc = "done" /\ rpCall[c].content.comments <= 5 =>
                   /\ rpCall[c].wrote
                   /\ rpCall[c].result = "File saved"
                   /\ rpCall[c].after[rpCall[c].files[1]] = rpCall[c].content.text

\* A commit of an existing file has returned with its backup taken, and
\* the other caller's commit was rejected.
C19_Witness ==
    \E c \in Callers : \E d \in Callers :
        /\ rpCall[c].op = "commit" /\ rpCall[c].pc = "done" /\ rpCall[c].wrote
        /\ HasBackup(rpBackups, rpCall[c].id, BackupName(rpCall[c].files[1]))
        /\ rpFiles[rpCall[c].files[1]] = rpCall[c].content.text
        /\ rpCall[d].op = "commit" /\ rpCall[d].result = "REJECTED"

\* The state part of C20: a restorePoint whose id was not in the manifest
\* it loaded has failed with 'not found' and has restored nothing.
UnknownIdFails ==
    \A c \in Callers :
        rpCall[c].op = "restore" /\ rpCall[c].pc # "loadManifest" /\ ~rpCall[c].known =>
            /\ rpCall[c].pc = "failed"
            /\ rpCall[c].result = "not found"
            /\ rpCall[c].restored = <<>>

\* The step part of C20: the step in which restorePoint fails leaves the
\* files, the manifest and the backups as they are.
FailureChangesNothing ==
    \A c \in Callers :
        rpCall[c].pc # "failed" /\ rpCall'[c].pc = "failed" =>
            UNCHANGED <<rpFiles, rpManifest, rpBackups>>

\* C20: restorePoint called with an id that is not in the manifest fails
\* with an explicit 'not found' error, and changes no file and no manifest
\* entry.
C20_UnknownIdFails == [](UnknownIdFails) /\ [][FailureChangesNothing]_vars

\* restorePoint has failed for the unknown id while a point with a backup is
\* in the manifest and a file has changed since.
C20_Witness ==
    \E c \in Callers :
        /\ rpCall[c].op = "restore" /\ rpCall[c].pc = "failed"
        /\ rpCall[c].id = UnknownId
        /\ \E k \in 1..Len(rpManifest) : rpManifest[k].id > 0
        /\ rpBackups # {}

\* No call of createRestorePoint, restorePoint or proposeCommit is in progress.
NoCallInProgress == \A c \in Callers : rpCall[c].pc \in {"idle", "done", "failed"}

\* A manifest that earlier calls have filled: the points 1 to n.
OldCounts == {0, MAX_RESTORE_POINTS - 2, MAX_RESTORE_POINTS - 1, MAX_RESTORE_POINTS}
OldManifest(n) == [k \in 1..n |-> [id |-> k, files |-> <<FlatPath>>]]

ManifestInit ==
    /\ \E content \in {Absent, "A"} :
           /\ rpFiles = [p \in RpPaths |-> IF p = NestedPath THEN content ELSE "B"]
           /\ \E n \in OldCounts :
                  /\ rpManifest = OldManifest(n)
                  /\ rpNextId = n + 1
                  /\ rpSnap = [k \in 1..n |-> rpFiles]
    /\ rpBackups = {}
    /\ rpCall = [c \in Callers |-> IdleCall]
    /\ rpCallsLeft = MaxCalls

\* Calls of createRestorePoint, each after the one before it has returned.
ManifestNext ==
    \E c \in Callers :
        \/ NoCallInProgress /\ \E list \in FileLists : CreateStart(c, list)
        \/ BackupFile(c)
        \/ LoadManifestToPush(c)
        \/ SaveManifest(c)

\* C29: once the calls of createRestorePoint have returned, the manifest
\* holds at most 100 restore points, in the order of their creation, and they
\* are exactly the most recently created ones.  The calls have drawn the ids
\* 1 to rpNextId - 1, in this order.
C29_ManifestIsLatest ==
    NoCallInProgress =>
        LET created == rpNextId - 1
            oldest == Max(1, created - MAX_RESTORE_POINTS + 1)
        IN  /\ Len(rpManifest) <= MAX_RESTORE_POINTS
            /\ Len(rpManifest) = created - oldest + 1
            /\ \A k \in 1..Len(rpManifest) : rpManifest[k].id = oldest + k - 1

\* The manifest held 100 points, calls have added points, and the oldest
\* points are gone.
C29_Witness ==
    /\ NoCallInProgress
    /\ rpNextId - 1 > MAX_RESTORE_POINTS + 1
    /\ Len(rpManifest) = MAX_RESTORE_POINTS
    /\ rpManifest[1].id = rpNextId - MAX_RESTORE_POINTS
    /\ rpManifest[MAX_RESTORE_POINTS].id = rpNextId - 1

(***************************************************************************)
(* Identifier-level search: semanticIdentifierSearch                       *)
(*                                                                         *)
(* The identifier index is given with, for each identifier, the cosine of  *)
(* its vector to the query vector and its keyword coverage.  Weights are   *)
(* in hundredths; normalizeWeight is the one of SearchIndex.search.        *)
(***************************************************************************)
MaxIdentifiers == 3

DEFAULT_TOP_K == 5
DEFAULT_SEMANTIC_WEIGHT == 78
DEFAULT_KEYWORD_WEIGHT == 22

\* The score of one identifier in the loop over index.docs.
RankedIdentifier(doc, semanticWeight, keywordWeight) ==
    LET semanticScore == Max(doc.cosine, 0)
        totalWeight == semanticWeight + keywordWeight
    IN  [name |-> doc.name,
         kind |-> doc.kind,
         semanticScore |-> semanticScore,
         keywordScore |-> doc.keywordScore,
         score |-> IF totalWeight > 0
                   THEN Clamp01((semanticWeight * semanticScore
                                   + keywordWeight * doc.keywordScore) \div totalWeight)
                   ELSE semanticScore]

\* The loop over index.docs: the identifiers of the kinds asked for, scored.
ScoredIdentifiers(docs, options) ==
    LET kept == SelectSeq(docs, LAMBDA doc :
                    options.includeKinds = Undefined \/ doc.kind \in options.includeKinds)
    IN  [k \in 1..Len(kept) |->
            RankedIdentifier(kept[k],
                             NormalizeWeight(options.semanticWeight, DEFAULT_SEMANTIC_WEIGHT),
                             NormalizeWeight(options.keywordWeight, DEFAULT_KEYWORD_WEIGHT))]

\* Math.max(1, Math.floor(options.topK ?? 5))
IdentifierTopK(options) ==
    IF options.topK = Undefined THEN DEFAULT_TOP_K ELSE Max(1, ValueOf(options.topK))

\* scored.sort((a, b) => b.score - a.score).slice(0, topK)
TopIdentifiers(scored, topK) == Slice(SortByDesc(scored, "score"), 0, topK)

\* ---- inputs ----
IdentifierKinds == {"function", "class"}
IdentifierCosines == {-(ScoreUnit \div 2), ScoreUnit \div 2}
IdentifierCoverages == {0, ScoreUnit}

IdentifierDocs(n) ==
    {docs \in [1..n -> [name : 1..n, kind : IdentifierKinds, cosine : IdentifierCosines,
                        keywordScore : IdentifierCoverages]] :
        \A k \in 1..n : docs[k].name = k}

IdentifierOptions ==
    [topK : {Undefined, {1}},
     semanticWeight : {Undefined, {0}},
     keywordWeight : {Undefined, {0}},
     includeKinds : {Undefined, {"function"}}]

IdentInit ==
    /\ \E n \in 0..MaxIdentifiers : idDocs \in IdentifierDocs(n)
    /\ idOptions \in IdentifierOptions
    /\ idRanked = <<>>
    /\ idpc = "ready"

IdentIdle ==
    /\ idDocs = <<>>
    /\ idOptions = [topK |-> Undefined, semanticWeight |-> Undefined,
                    keywordWeight |-> Undefined, includeKinds |-> Undefined]
    /\ idRanked = <<>>
    /\ idpc = "done"

\* semanticIdentifierSearch with an index without identifiers.
IdentifierSearchNoneIndexed ==
    /\ UNCHANGED notIdent
    /\ idpc = "ready"
    /\ Len(idDocs) = 0
    /\ idpc' = "none indexed"
    /\ UNCHANGED <<idDocs, idOptions, idRanked>>

\* fetchEmbedding(options.query) rejects.
IdentifierSearchFails ==
    /\ UNCHANGED notIdent
    /\ idpc = "ready"
    /\ Len(idDocs) > 0
    /\ idpc' = "failed"
    /\ UNCHANGED <<idDocs, idOptions, idRanked>>

\* fetchEmbedding(options.query) resolves: the identifiers are scored,
\* sorted and cut to topK.
IdentifierSearchRanks ==
    /\ UNCHANGED notIdent
    /\ idpc = "ready"
    /\ Len(idDocs) > 0
    /\ \E scored \in {ScoredIdentifiers(idDocs, idOptions)} :
           IF Len(scored) = 0
           THEN idpc' = "none of kind" /\ UNCHANGED idRanked
           ELSE /\ idRanked' = TopIdentifiers(Array(scored), IdentifierTopK(idOptions))
                /\ idpc' = "done"
    /\ UNCHANGED <<idDocs, idOptions>>

IdentNext ==
    \/ IdentifierSearchNoneIndexed
    \/ IdentifierSearchFails
    \/ IdentifierSearchRanks

(***************************************************************************)
(* Claims about semanticIdentifierSearch                                   *)
(***************************************************************************)
\* C28: in the list of an identifier-level search, of two identifiers with
\* the same combined score and different keyword scores the one with the
\* higher keyword score comes first.
C28_KeywordScoreBreaksTies ==
    idpc = "done" =>
        \A i \in 1..Len(idRanked) : \A j \in 1..Len(idRanked) :
            i < j /\ idRanked[i].score = idRanked[j].score
                => idRanked[i].keywordScore >= idRanked[j].keywordScore

(***************************************************************************)
(* The two indexes kept live: buildIndex and buildIdentifierIndex, the     *)
(* tracker's refreshFileSearchEmbeddings and refreshIdentifierEmbeddings,  *)
(* and the call-site entries semanticIdentifierSearch writes               *)
(*                                                                         *)
(* One source file.  Paths, keys and texts are sequences of UTF-16 code    *)
(* units, so that keys and hashes are computed as the code computes them.  *)
(***************************************************************************)
\* Bounds of this model: the index accesses, flushes, call-site rankings
\* and changes of the file that may start, and the same with clock ticks
\* where time passes.
MaxLiveEvents == 4
MaxClockEvents == 4

Levels == {"file", "identifier"}
Roots == {"root", "other"}

Space == <<32>>
Colon == <<58>>
Slash == 47
Backslash == 92

\* "a.ts", and "d\a.ts" as path.relative and fs.watch give it on Windows.
RawPaths == {<<97, 46, 116, 115>>, <<100, 92, 97, 46, 116, 115>>}

\* path.replace(/\\/g, "/")
ReplaceBackslashes(path) == [i \in 1..Len(path) |-> IF path[i] = Backslash THEN Slash ELSE path[i]]

\* The number of "/" a path starts with.
RECURSIVE LeadingSlashes(_, _)
LeadingSlashes(path, i) ==
    IF i > Len(path) \/ path[i] # Slash THEN i - 1 ELSE LeadingSlashes(path, i + 1)

\* embedding-tracker.ts normalizeRelativePath: path.replace(/\\/g, "/").replace(/^\/+/, "")
TrackerNormalizeRelativePath(path) ==
    LET replaced == ReplaceBackslashes(path)
    IN  SubSeq(replaced, LeadingSlashes(replaced, 1) + 1, Len(replaced))

\* normalizeRelativePath of semantic-search.ts and of semantic-identifiers.ts
NormalizeRelativePath(path) == Array(ReplaceBackslashes(path))

\* walker.ts: relative(rootDir, fullPath).replace(/\\/g, "/")
WalkerRelativePath(path) == Array(ReplaceBackslashes(path))

\* Array.prototype.join
RECURSIVE Join(_, _)
Join(parts, separator) ==
    IF Len(parts) = 0 THEN <<>>
    ELSE IF Len(parts) = 1 THEN parts[1]
    ELSE parts[1] \o separator \o Join(Tail(parts), separator)

\* The versions of the file's source: a header line, one function, and one
\* line that calls it.  The second version renames the function.
Versions == {"v1", "v2"}
Gone == "gone"

\* analyzeFile(fullPath): the header and the flattened symbols.
Analysis(version) ==
    [header |-> <<72>>,
     symbols |-> << [name |-> IF version = "v1" THEN <<102>> ELSE <<103>>,
                     kind |-> <<102, 110>>,
                     line |-> <<50>>,
                     signature |-> IF version = "v1" THEN <<102, 40, 41>> ELSE <<103, 40, 41>>,
                     parentName |-> <<>>] >>,
     callLine |-> <<52>>,
     callContext |-> IF version = "v1" THEN <<102, 40, 41, 59>> ELSE <<103, 40, 41, 59>>]

SymbolNames(analysis) == [k \in 1..Len(analysis.symbols) |-> analysis.symbols[k].name]
SymbolSignatures(analysis) == [k \in 1..Len(analysis.symbols) |-> analysis.symbols[k].signature]

\* buildSearchDocumentForFile: null when the file cannot be analyzed.
NullDoc == [isNull |-> TRUE]
BuildSearchDocumentForFile(relativePath, content) ==
    IF content = Gone THEN NullDoc
    ELSE [isNull |-> FALSE,
          path |-> NormalizeRelativePath(relativePath),
          header |-> Analysis(content).header,
          symbols |-> SymbolNames(Analysis(content)),
          content |-> Join(SymbolSignatures(Analysis(content)), Space)]

\* SearchIndex.index: `${doc.header} ${doc.symbols.join(" ")} ${doc.content}`
IndexText(doc) == doc.header \o Space \o Join(doc.symbols, Space) \o Space \o doc.content

\* refreshFileSearchEmbeddings: `${doc.header} ${doc.symbols.join(" ")} ${doc.content}`
RefreshText(doc) == doc.header \o Space \o Join(doc.symbols, Space) \o Space \o doc.content

\* The identifier documents of a file, as the template of both builders has
\* them: id `${path}:${name}:${line}`, and text
\* `${name} ${kind} ${signature} ${path} ${header} ${parentName ?? ""}`.
IdentifierDoc(path, header, symbol) ==
    [id |-> path \o Colon \o symbol.name \o Colon \o symbol.line,
     text |-> symbol.name \o Space \o symbol.kind \o Space \o symbol.signature \o Space
              \o path \o Space \o header \o Space \o symbol.parentName]

\* The loop over the files in buildIdentifierIndex, with file.relativePath.
IndexIdentifierDocs(relativePath, content) ==
    IF content = Gone THEN <<>>
    ELSE [k \in 1..Len(Analysis(content).symbols) |->
             IdentifierDoc(relativePath, Analysis(content).header, Analysis(content).symbols[k])]

\* buildIdentifierDocsForFile, with the normalized path.
BuildIdentifierDocsForFile(relativePath, content) ==
    IF content = Gone THEN <<>>
    ELSE [k \in 1..Len(Analysis(content).symbols) |->
             IdentifierDoc(NormalizeRelativePath(relativePath), Analysis(content).header,
                           Analysis(content).symbols[k])]

\* "id:" and "callsite:"
IdPrefix == <<105, 100, 58>>
CALLSITE_CACHE_PREFIX == <<99, 97, 108, 108, 115, 105, 116, 101, 58>>

\* A key of refreshIdentifierEmbeddings that lacks the prefix.
RefreshIdentifierKeyBare(doc) == doc.id

\* `id:${docs[i].id}` in buildIdentifierIndex, `id:${doc.id}` in
\* refreshIdentifierEmbeddings
IndexIdentifierKey(doc) == IdPrefix \o doc.id
RefreshIdentifierKey(doc) == IdPrefix \o doc.id

\* String.prototype.startsWith
StartsWith(text, prefix) ==
    Len(text) >= Len(prefix) /\ SubSeq(text, 1, Len(prefix)) = prefix

\* The cache object: a function from its keys.
EmptyMap == [key \in {} |-> <<>>]
Put(cache, key, entry) ==
    [k \in DOMAIN cache \cup {key} |-> IF k = key THEN entry ELSE cache[k]]
Delete(cache, keys) == [k \in DOMAIN cache \ keys |-> cache[k]]

Entry(text) == [hash |-> HashContent(text), vector |-> EmbedText(text)]

\* cache[key]?.hash === hash
Hit(cache, key, text) == key \in DOMAIN cache /\ cache[key].hash = HashContent(text)

\* removeFileScopedCacheEntries
FileScopedKeys(cache, relativePath) ==
    {key \in DOMAIN cache :
        \/ StartsWith(key, IdPrefix \o relativePath \o Colon)
        \/ StartsWith(key, CALLSITE_CACHE_PREFIX \o relativePath \o Colon)}

\* The documents an index build makes of the walked files, as key and text.
BuildDocs(level, root, rawPath, content) ==
    IF root # "root" THEN <<>>
    ELSE IF level = "file"
    THEN LET doc == BuildSearchDocumentForFile(WalkerRelativePath(rawPath), content)
         IN  IF doc.isNull THEN <<>> ELSE << [key |-> doc.path, text |-> IndexText(doc)] >>
    ELSE LET docs == IndexIdentifierDocs(WalkerRelativePath(rawPath), content)
         IN  [k \in 1..Len(docs) |-> [key |-> IndexIdentifierKey(docs[k]), text |-> docs[k].text]]

\* The entries of docs a build finds no vector for in the cache.
Misses(cache, docs) == SelectSeq(docs, LAMBDA doc : ~Hit(cache, doc.key, doc.text))

RECURSIVE PutAll(_, _)
PutAll(cache, docs) ==
    IF Len(docs) = 0 THEN cache
    ELSE PutAll(Put(cache, docs[1].key, Entry(docs[1].text)), Tail(docs))

KeysOf(docs) == {docs[k].key : k \in 1..Len(docs)}

\* The loop over uniquePaths of a refresh, for the path the tracker hands
\* over: the cache with entries deleted, and what is left to embed.
RefreshPlan(level, cache, trackedPath, content) ==
    LET relativePath == NormalizeRelativePath(trackedPath)
    IN  IF level = "file"
        THEN LET doc == BuildSearchDocumentForFile(relativePath, content)
             IN  IF doc.isNull
                 THEN [cache |-> Delete(cache, {relativePath}),
                       deleted |-> {relativePath}, pending |-> <<>>]
                 ELSE IF Hit(cache, relativePath, RefreshText(doc))
                 THEN [cache |-> cache, deleted |-> {}, pending |-> <<>>]
                 ELSE [cache |-> cache, deleted |-> {},
                       pending |-> << [key |-> relativePath, text |-> RefreshText(doc)] >>]
        ELSE LET docs == BuildIdentifierDocsForFile(relativePath, content)
             IN  [cache |-> Delete(cache, FileScopedKeys(cache, relativePath)),
                  deleted |-> FileScopedKeys(cache, relativePath),
                  pending |-> [k \in 1..Len(docs) |->
                                  [key |-> RefreshIdentifierKey(docs[k]), text |-> docs[k].text]]]

\* rankCallSites for the one call line of an indexed file: key
\* `callsite:${file}:${line}` and text `${file} ${context}`.
CallSiteDocs(fileLines) ==
    IF fileLines.content = Gone THEN <<>>
    ELSE << [key |-> CALLSITE_CACHE_PREFIX \o fileLines.path \o Colon
                        \o Analysis(fileLines.content).callLine,
             text |-> fileLines.path \o Space \o Analysis(fileLines.content).callContext] >>

\* A reuse test that takes an index of exactly the time to live as fresh.
IndexIsFreshAtTtl(index, rootDir, time) ==
    /\ ~index.isNull
    /\ index.rootDir = rootDir
    /\ time - index.time <= INDEX_TTL_MS

\* The reuse test of buildIndex and of buildIdentifierIndex.
IndexIsFresh(index, rootDir, time) ==
    /\ ~index.isNull
    /\ index.rootDir = rootDir
    /\ time - index.time < INDEX_TTL_MS

\* invalidateSearchCache and invalidateIdentifierSearchCache
InvalidIndex == [isNull |-> TRUE, rootDir |-> "null", time |-> 0, gen |-> 0, content |-> Gone]

IdleBuild ==
    [pc |-> "idle", rootDir |-> "null", content |-> Gone, docs |-> <<>>,
     cache |-> EmptyMap, misses |-> <<>>]
IdleRefresh ==
    [pc |-> "idle", content |-> Gone, cache |-> EmptyMap, deleted |-> {}, pending |-> <<>>]
IdleCalls == [pc |-> "idle", cache |-> EmptyMap, misses |-> <<>>]
NoAccess == [level |-> "none", rootDir |-> "null", reused |-> FALSE]
NotRefreshed == "none"
NotBuilt == [built |-> FALSE, misses |-> <<>>]

LiveStart(paths, events) ==
    /\ lvRawPath \in paths
    /\ lvContent = "v1"
    /\ lvDisk = [level \in Levels |-> EmptyMap]
    /\ lvIndex = [level \in Levels |-> InvalidIndex]
    /\ lvNow = StartTime
    /\ lvBuild = [level \in Levels |-> IdleBuild]
    /\ lvRefresh = [level \in Levels |-> IdleRefresh]
    /\ lvCalls = IdleCalls
    /\ lvFlush = "idle"
    /\ lvLeft = events
    /\ lvGen = 0
    /\ lvSeen = [level \in Levels |-> 0]
    /\ lvAccess = NoAccess
    /\ lvRefreshed = [level \in Levels |-> NotRefreshed]
    /\ lvEmbedded = [level \in Levels |-> NotBuilt]

LiveInit == LiveStart(RawPaths, MaxLiveEvents)

LiveClockInit == LiveStart({<<97, 46, 116, 115>>}, MaxClockEvents)

LiveIdle == LiveStart({<<97, 46, 116, 115>>}, 0)

\* cachedIndex = index; cachedRootDir = rootDir; lastIndexTime = Date.now()
Installed(build) ==
    [isNull |-> FALSE, rootDir |-> build.rootDir, time |-> lvNow, gen |-> lvGen + 1,
     content |-> build.content]

\* buildIndex(rootDir) and buildIdentifierIndex(rootDir), up to the first
\* load of the cache file: the index is reused, or the files are walked
\* and read.
Access(level, rootDir) ==
    /\ UNCHANGED notLive
    /\ lvLeft > 0
    /\ lvBuild[level].pc = "idle"
    /\ lvLeft' = lvLeft - 1
    /\ lvAccess' = [level |-> level, rootDir |-> rootDir,
                    reused |-> IndexIsFresh(lvIndex[level], rootDir, lvNow)]
    /\ \E docs \in {BuildDocs(level, rootDir, lvRawPath, lvContent)} :
       \E build \in {[IdleBuild EXCEPT !.pc = "walked", !.rootDir = rootDir,
                                       !.content = IF rootDir = "root" THEN lvContent ELSE Gone,
                                       !.docs = Array(docs)]} :
          IF IndexIsFresh(lvIndex[level], rootDir, lvNow)
          THEN UNCHANGED <<lvIndex, lvBuild, lvGen>>
          ELSE IF level = "identifier" /\ Len(docs) = 0
          THEN /\ lvIndex' = [lvIndex EXCEPT ![level] = Installed(build)]
               /\ lvGen' = lvGen + 1
               /\ UNCHANGED lvBuild
          ELSE /\ lvBuild' = [lvBuild EXCEPT ![level] = build]
               /\ UNCHANGED <<lvIndex, lvGen>>
    /\ UNCHANGED <<lvRawPath, lvContent, lvDisk, lvNow, lvRefresh, lvCalls, lvFlush,
                   lvSeen, lvRefreshed, lvEmbedded>>

\* The build loads the cache file and looks every document up; with
\* nothing to embed it writes nothing and the index is installed.
BuildLoad(level) ==
    /\ UNCHANGED notLive
    /\ lvBuild[level].pc = "walked"
    /\ \E misses \in {Misses(lvDisk[level], lvBuild[level].docs)} :
          /\ lvEmbedded' = [lvEmbedded EXCEPT ![level] = [built |-> TRUE, misses |-> Array(misses)]]
          /\ IF Len(misses) = 0
             THEN /\ lvIndex' = [lvIndex EXCEPT ![level] = Installed(lvBuild[level])]
                  /\ lvGen' = lvGen + 1
                  /\ lvBuild' = [lvBuild EXCEPT ![level] = IdleBuild]
             ELSE /\ lvBuild' = [lvBuild EXCEPT ![level] =
                                    [@ EXCEPT !.pc = "embedding", !.cache = lvDisk[level],
                                              !.misses = Array(misses)]]
                  /\ UNCHANGED <<lvIndex, lvGen>>
    /\ UNCHANGED <<lvRawPath, lvContent, lvDisk, lvNow, lvRefresh, lvCalls, lvFlush, lvLeft,
                   lvSeen, lvAccess, lvRefreshed>>

\* fetchEmbedding resolves for the build.
BuildEmbedOk(level) ==
    /\ UNCHANGED notLive
    /\ lvBuild[level].pc = "embedding"
    /\ lvBuild' = [lvBuild EXCEPT ![level] =
                      [@ EXCEPT !.pc = "saving", !.cache = PutAll(@, lvBuild[level].misses)]]
    /\ UNCHANGED <<lvRawPath, lvContent, lvDisk, lvIndex, lvNow, lvRefresh, lvCalls, lvFlush,
                   lvLeft, lvGen, lvSeen, lvAccess, lvRefreshed, lvEmbedded>>

\* fetchEmbedding rejects for the build: the search fails, nothing is
\* saved and no index is installed.
BuildEmbedFails(level) ==
    /\ UNCHANGED notLive
    /\ lvBuild[level].pc = "embedding"
    /\ lvBuild' = [lvBuild EXCEPT ![level] = IdleBuild]
    /\ UNCHANGED <<lvRawPath, lvContent, lvDisk, lvIndex, lvNow, lvRefresh, lvCalls, lvFlush,
                   lvLeft, lvGen, lvSeen, lvAccess, lvRefreshed, lvEmbedded>>

\* The build saves the cache it loaded, with its vectors, and installs the
\* index.
BuildSave(level) ==
    /\ UNCHANGED notLive
    /\ lvBuild[level].pc = "saving"
    /\ lvDisk' = [lvDisk EXCEPT ![level] = lvBuild[level].cache]
    /\ lvIndex' = [lvIndex EXCEPT ![level] = Installed(lvBuild[level])]
    /\ lvGen' = lvGen + 1
    /\ lvBuild' = [lvBuild EXCEPT ![level] = IdleBuild]
    /\ UNCHANGED <<lvRawPath, lvContent, lvNow, lvRefresh, lvCalls, lvFlush, lvLeft,
                   lvSeen, lvAccess, lvRefreshed, lvEmbedded>>

\* flushPending with the file in its batch: both refreshes are called.
RefreshFlushStart ==
    /\ UNCHANGED notLive
    /\ lvLeft > 0
    /\ lvFlush = "idle"
    /\ \A level \in Levels : lvRefresh[level].pc = "idle"
    /\ lvLeft' = lvLeft - 1
    /\ lvFlush' = "running"
    /\ lvRefresh' = [level \in Levels |-> [IdleRefresh EXCEPT !.pc = "started"]]
    /\ lvSeen' = [level \in Levels |-> lvIndex[level].gen]
    /\ UNCHANGED <<lvRawPath, lvContent, lvDisk, lvIndex, lvNow, lvBuild, lvCalls,
                   lvGen, lvAccess, lvRefreshed, lvEmbedded>>

\* What a pass that has settled is left as: the flush still waits for it,
\* or the flush has ended without it.
Settled(pc) == IF lvFlush = "running" THEN pc ELSE "idle"

\* The refresh loads the cache file and goes through its paths.
RefreshLoad(level) ==
    /\ UNCHANGED notLive
    /\ lvRefresh[level].pc = "started"
    /\ \E plan \in {RefreshPlan(level, lvDisk[level],
                                TrackerNormalizeRelativePath(lvRawPath), lvContent)} :
          lvRefresh' = [lvRefresh EXCEPT ![level] =
                           [pc |-> IF Len(plan.pending) = 0 THEN "saving" ELSE "embedding",
                            content |-> lvContent,
                            cache |-> plan.cache,
                            deleted |-> plan.deleted,
                            pending |-> Array(plan.pending)]]
    /\ UNCHANGED <<lvRawPath, lvContent, lvDisk, lvIndex, lvNow, lvBuild, lvCalls, lvFlush,
                   lvLeft, lvGen, lvSeen, lvAccess, lvRefreshed, lvEmbedded>>

\* fetchEmbedding resolves for the refresh.
RefreshEmbedOk(level) ==
    /\ UNCHANGED notLive
    /\ lvRefresh[level].pc = "embedding"
    /\ lvRefresh' = [lvRefresh EXCEPT ![level] =
                        [@ EXCEPT !.pc = "saving", !.cache = PutAll(@, lvRefresh[level].pending)]]
    /\ UNCHANGED <<lvRawPath, lvContent, lvDisk, lvIndex, lvNow, lvBuild, lvCalls, lvFlush,
                   lvLeft, lvGen, lvSeen, lvAccess, lvRefreshed, lvEmbedded>>

\* fetchEmbedding rejects for the refresh: the refresh rejects before it
\* has saved the cache or invalidated the index.
RefreshEmbedFails(level) ==
    /\ UNCHANGED notLive
    /\ lvRefresh[level].pc = "embedding"
    /\ lvRefresh' = [lvRefresh EXCEPT ![level] = [IdleRefresh EXCEPT !.pc = Settled("failed")]]
    /\ UNCHANGED <<lvRawPath, lvContent, lvDisk, lvIndex, lvNow, lvBuild, lvCalls, lvFlush,
                   lvLeft, lvGen, lvSeen, lvAccess, lvRefreshed, lvEmbedded>>

\* saveEmbeddingCache, then invalidateSearchCache or
\* invalidateIdentifierSearchCache.
RefreshSave(level) ==
    /\ UNCHANGED notLive
    /\ lvRefresh[level].pc = "saving"
    /\ lvDisk' = [lvDisk EXCEPT ![level] = lvRefresh[level].cache]
    /\ lvIndex' = [lvIndex EXCEPT ![level] = InvalidIndex]
    /\ lvRefresh' = [lvRefresh EXCEPT ![level] = [IdleRefresh EXCEPT !.pc = Settled("done")]]
    /\ lvRefreshed' = [lvRefreshed EXCEPT ![level] =
                          IF lvRefresh[level].content = lvContent THEN lvContent
                          ELSE NotRefreshed]
    /\ lvEmbedded' = [lvEmbedded EXCEPT ![level] = NotBuilt]
    /\ UNCHANGED <<lvRawPath, lvContent, lvNow, lvBuild, lvCalls, lvFlush, lvLeft, lvGen,
                   lvSeen, lvAccess>>

\* Promise.all settles: both refreshes have resolved, or one has rejected
\* (the other may still be running).  The catch logs, the finally ends the
\* flush.
RefreshFlushEnd ==
    /\ UNCHANGED notLive
    /\ lvFlush = "running"
    /\ \/ \A level \in Levels : lvRefresh[level].pc = "done"
       \/ \E level \in Levels : lvRefresh[level].pc = "failed"
    /\ lvFlush' = "idle"
    /\ lvRefresh' = [level \in Levels |->
                        IF lvRefresh[level].pc \in {"done", "failed"} THEN IdleRefresh
                        ELSE lvRefresh[level]]
    /\ lvSeen' = [level \in Levels |-> 0]
    /\ UNCHANGED <<lvRawPath, lvContent, lvDisk, lvIndex, lvNow, lvBuild, lvCalls, lvLeft,
                   lvGen, lvAccess, lvRefreshed, lvEmbedded>>

\* semanticIdentifierSearch, with the index it was given, loads the cache
\* file and looks the call sites of its results up.
CallsLoad ==
    /\ UNCHANGED notLive
    /\ lvLeft > 0
    /\ lvCalls.pc = "idle"
    /\ ~lvIndex["identifier"].isNull
    /\ lvIndex["identifier"].content # Gone
    /\ lvLeft' = lvLeft - 1
    /\ \E misses \in {Misses(lvDisk["identifier"],
                             CallSiteDocs([path |-> WalkerRelativePath(lvRawPath),
                                           content |-> lvIndex["identifier"].content]))} :
          lvCalls' = [pc |-> IF Len(misses) = 0 THEN "saving" ELSE "embedding",
                      cache |-> lvDisk["identifier"],
                      misses |-> Array(misses)]
    /\ UNCHANGED <<lvRawPath, lvContent, lvDisk, lvIndex, lvNow, lvBuild, lvRefresh, lvFlush,
                   lvGen, lvSeen, lvAccess, lvRefreshed, lvEmbedded>>

\* fetchEmbedding resolves in rankCallSites.
CallsEmbedOk ==
    /\ UNCHANGED notLive
    /\ lvCalls.pc = "embedding"
    /\ lvCalls' = [lvCalls EXCEPT !.pc = "saving", !.cache = PutAll(@, lvCalls.misses)]
    /\ UNCHANGED <<lvRawPath, lvContent, lvDisk, lvIndex, lvNow, lvBuild, lvRefresh, lvFlush,
                   lvLeft, lvGen, lvSeen, lvAccess, lvRefreshed, lvEmbedded>>

\* fetchEmbedding rejects in rankCallSites: the search fails before it saves.
CallsEmbedFails ==
    /\ UNCHANGED notLive
    /\ lvCalls.pc = "embedding"
    /\ lvCalls' = IdleCalls
    /\ UNCHANGED <<lvRawPath, lvContent, lvDisk, lvIndex, lvNow, lvBuild, lvRefresh, lvFlush,
                   lvLeft, lvGen, lvSeen, lvAccess, lvRefreshed, lvEmbedded>>

\* The saveEmbeddingCache that ends semanticIdentifierSearch.
CallsSave ==
    /\ UNCHANGED notLive
    /\ lvCalls.pc = "saving"
    /\ lvDisk' = [lvDisk EXCEPT !["identifier"] = lvCalls.cache]
    /\ lvCalls' = IdleCalls
    /\ UNCHANGED <<lvRawPath, lvContent, lvIndex, lvNow, lvBuild, lvRefresh, lvFlush,
                   lvLeft, lvGen, lvSeen, lvAccess, lvRefreshed, lvEmbedded>>

\* The file is edited or deleted.
SourceFileChanges(content) ==
    /\ UNCHANGED notLive
    /\ lvLeft > 0
    /\ content # lvContent
    /\ lvLeft' = lvLeft - 1
    /\ lvContent' = content
    /\ lvRefreshed' = [level \in Levels |-> NotRefreshed]
    /\ UNCHANGED <<lvRawPath, lvDisk, lvIndex, lvNow, lvBuild, lvRefresh, lvCalls, lvFlush,
                   lvGen, lvSeen, lvAccess, lvEmbedded>>

\* Time passes.
LiveTick ==
    /\ UNCHANGED notLive
    /\ lvLeft > 0
    /\ lvLeft' = lvLeft - 1
    /\ lvNow' = lvNow + TickMs
    /\ UNCHANGED <<lvRawPath, lvContent, lvDisk, lvIndex, lvBuild, lvRefresh, lvCalls, lvFlush,
                   lvGen, lvSeen, lvAccess, lvRefreshed, lvEmbedded>>

\* No pass is between its load of a cache file and its save.
NoPassRunning ==
    /\ lvFlush = "idle"
    /\ lvCalls.pc = "idle"
    /\ \A level \in Levels : lvBuild[level].pc = "idle" /\ lvRefresh[level].pc = "idle"

LiveSteps ==
    \/ \E level \in Levels : BuildLoad(level)
    \/ \E level \in Levels : BuildEmbedOk(level)
    \/ \E level \in Levels : BuildEmbedFails(level)
    \/ \E level \in Levels : BuildSave(level)
    \/ \E level \in Levels : RefreshLoad(level)
    \/ \E level \in Levels : RefreshEmbedOk(level)
    \/ \E level \in Levels : RefreshEmbedFails(level)
    \/ \E level \in Levels : RefreshSave(level)
    \/ RefreshFlushEnd
    \/ CallsEmbedOk
    \/ CallsEmbedFails
    \/ CallsSave
    \/ \E content \in Versions \cup {Gone} : SourceFileChanges(content)

\* Searches and tracker flushes as they come.
LiveNext ==
    \/ \E level \in Levels, rootDir \in Roots : Access(level, rootDir)
    \/ RefreshFlushStart
    \/ CallsLoad
    \/ LiveSteps

\* Index accesses and tracker flushes as they come, while time passes.
LiveClockNext ==
    \/ \E level \in Levels, rootDir \in Roots : Access(level, rootDir)
    \/ RefreshFlushStart
    \/ \E level \in Levels : BuildLoad(level)
    \/ \E level \in Levels : BuildEmbedOk(level)
    \/ \E level \in Levels : BuildEmbedFails(level)
    \/ \E level \in Levels : BuildSave(level)
    \/ \E level \in Levels : RefreshLoad(level)
    \/ \E level \in Levels : RefreshEmbedOk(level)
    \/ \E level \in Levels : RefreshEmbedFails(level)
    \/ \E level \in Levels : RefreshSave(level)
    \/ RefreshFlushEnd
    \/ LiveTick

\* Searches and tracker flushes that follow one another.
LiveSeqNext ==
    \/ NoPassRunning /\ \E level \in Levels, rootDir \in Roots : Access(level, rootDir)
    \/ NoPassRunning /\ RefreshFlushStart
    \/ NoPassRunning /\ CallsLoad
    \/ LiveSteps

\* The tracker's flush settles in this step.
RefreshFlushEnds == lvFlush = "running" /\ lvFlush' = "idle"

\* C23: every tracker flush of a non-empty batch leaves both in-memory
\* indexes invalidated by the time the flush ends, also when an embedding
\* call fails: at no level is the index that was installed when the flush
\* started still installed when it ends.
C23_FlushInvalidatesBothIndexes ==
    [][RefreshFlushEnds =>
          \A level \in Levels :
              lvIndex'[level].isNull \/ lvIndex'[level].gen # lvSeen[level]]_vars

\* The keys the pass that saves a level's cache file in this step has put
\* or deleted since it loaded the file; a refresh of the identifier level
\* deletes every key that is scoped to its file.
SavingPassKeys(level) ==
    IF lvBuild'[level] # lvBuild[level] THEN KeysOf(lvBuild[level].misses)
    ELSE IF lvRefresh'[level] # lvRefresh[level]
    THEN lvRefresh[level].deleted \cup KeysOf(lvRefresh[level].pending)
         \cup IF level = "identifier"
              THEN FileScopedKeys(lvDisk[level], TrackerNormalizeRelativePath(lvRawPath))
              ELSE {}
    ELSE KeysOf(lvCalls.misses)

SameEntry(before, after, key) ==
    /\ key \in DOMAIN before <=> key \in DOMAIN after
    /\ key \in DOMAIN before \cap DOMAIN after => before[key] = after[key]

\* C24: the read-modify-write passes over a cache file are synchronized:
\* when a pass saves the file, every entry it has neither put nor deleted
\* is left as the file had it, so that no pass overwrites what another
\* has written or deleted.
C24_SaveKeepsEntriesOfOthers ==
    [][\A level \in Levels :
          lvDisk'[level] # lvDisk[level] =>
              \A key \in (DOMAIN lvDisk[level] \cup DOMAIN lvDisk'[level])
                             \ SavingPassKeys(level) :
                  SameEntry(lvDisk[level], lvDisk'[level], key)]_vars

\* An access to the index of a level for a directory happens in this step.
AccessStep(level, rootDir) ==
    /\ lvLeft' < lvLeft
    /\ lvFlush' = lvFlush /\ lvCalls' = lvCalls /\ lvContent' = lvContent /\ lvNow' = lvNow
    /\ lvAccess'.level = level
    /\ lvAccess'.rootDir = rootDir

\* The access is given the installed index, and nothing is built.
Reuses(level) ==
    /\ lvAccess'.reused
    /\ lvIndex' = lvIndex
    /\ lvBuild' = lvBuild

\* The access builds the index anew.
Rebuilds(level) ==
    /\ ~lvAccess'.reused
    /\ lvBuild'[level].pc = "walked" \/ lvIndex'[level].gen = lvGen + 1

\* C25: the in-memory index of either level is reused only if it was built
\* for the same root directory, has not been invalidated since, and its
\* build finished less than INDEX_TTL_MS ago; otherwise that access
\* rebuilds it.
C25_IndexReusedOnlyWhileFresh ==
    [][\A level \in Levels, rootDir \in Roots :
          AccessStep(level, rootDir) =>
              IF /\ ~lvIndex[level].isNull
                 /\ lvIndex[level].rootDir = rootDir
                 /\ lvNow - lvIndex[level].time < INDEX_TTL_MS
              THEN Reuses(level)
              ELSE Rebuilds(level)]_vars

\* An index built for the directory, not invalidated, of exactly the time
\* to live, is being rebuilt by the access that found it.
C25_Witness ==
    \E level \in Levels :
        /\ lvAccess.level = level
        /\ ~lvAccess.reused
        /\ lvBuild[level].pc = "walked"
        /\ ~lvIndex[level].isNull
        /\ lvIndex[level].rootDir = lvAccess.rootDir
        /\ lvNow - lvIndex[level].time = INDEX_TTL_MS

\* C30: a refresh writes its entries with the key, the text and the hash
\* the index builder uses, so the build of a level that follows a refresh
\* embeds nothing of a file that has not changed since that refresh.
C30_RefreshedFileNeedsNoEmbedding ==
    \A level \in Levels :
        lvRefreshed[level] # NotRefreshed /\ lvEmbedded[level].built =>
            lvEmbedded[level].misses = <<>>

\* The file, reported under a path with a backslash, was changed and then
\* refreshed; the first build of each level came after and embedded
\* nothing, though it had documents.
C30_Witness ==
    /\ Backslash \in SeqToSet(lvRawPath)
    /\ lvGen = 2
    /\ \A level \in Levels :
          /\ lvRefreshed[level] = "v2"
          /\ lvEmbedded[level].built
          /\ lvEmbedded[level].misses = <<>>
          /\ ~lvIndex[level].isNull
          /\ lvIndex[level].rootDir = "root"
          /\ lvIndex[level].content = "v2"

(***************************************************************************)
(* Specifications                                                          *)
(***************************************************************************)
InitEmbed == EmbInit /\ RankIdle /\ TrackIdle /\ ServerIdle /\ CallIdle /\ ClusterIdle /\ HierIdle /\ LoadIdle /\ ShadowIdle /\ IdentIdle /\ LiveIdle
SpecEmbed == InitEmbed /\ [][EmbNext]_vars

InitRank == RankInit /\ EmbIdle /\ TrackIdle /\ ServerIdle /\ CallIdle /\ ClusterIdle /\ HierIdle /\ LoadIdle /\ ShadowIdle /\ IdentIdle /\ LiveIdle
SpecRank == InitRank /\ [][RankNext]_vars

InitTrack == TrackInit /\ EmbIdle /\ RankIdle /\ ServerIdle /\ CallIdle /\ ClusterIdle /\ HierIdle /\ LoadIdle /\ ShadowIdle /\ IdentIdle /\ LiveIdle
SpecTrack == InitTrack /\ [][TrackNext]_vars
SpecTrackLive == InitTrack /\ [][TrackNext]_vars /\ TrackFairness

InitServer == ServerInit(MaxOps) /\ EmbIdle /\ RankIdle /\ TrackIdle /\ CallIdle /\ ClusterIdle /\ HierIdle /\ LoadIdle /\ ShadowIdle /\ IdentIdle /\ LiveIdle
Spec == InitServer /\ [][ServerNext]_vars

InitIndex == ServerInit(MaxIndexOps) /\ EmbIdle /\ RankIdle /\ TrackIdle /\ CallIdle /\ ClusterIdle /\ HierIdle /\ LoadIdle /\ ShadowIdle /\ IdentIdle /\ LiveIdle
SpecIndex == InitIndex /\ [][IndexNext]_vars

InitCall == CallInit /\ EmbIdle /\ RankIdle /\ TrackIdle /\ ServerIdle /\ ClusterIdle /\ HierIdle /\ LoadIdle /\ ShadowIdle /\ IdentIdle /\ LiveIdle
SpecCall == InitCall /\ [][CallNext]_vars

\* A call of spectralCluster, or a call of buildHierarchy.
InitCluster ==
    /\ (ClusterInit /\ HierIdle) \/ (ClusterIdle /\ HierInit)
    /\ EmbIdle /\ RankIdle /\ TrackIdle /\ ServerIdle /\ CallIdle /\ LoadIdle /\ ShadowIdle /\ IdentIdle /\ LiveIdle
SpecCluster == InitCluster /\ [][ClusterNext \/ HierNext]_vars

\* A call of SearchIndex.index for each cache file it may find.
InitLoad == LoadInit /\ EmbIdle /\ RankIdle /\ TrackIdle /\ ServerIdle /\ CallIdle /\ ClusterIdle /\ HierIdle /\ ShadowIdle /\ IdentIdle /\ LiveIdle
SpecLoad == InitLoad /\ [][LoadNext]_vars

\* Calls of createRestorePoint, restorePoint and proposeCommit by two callers.
InitShadow == ShadowInit /\ EmbIdle /\ RankIdle /\ TrackIdle /\ ServerIdle /\ CallIdle /\ ClusterIdle /\ HierIdle /\ LoadIdle /\ IdentIdle /\ LiveIdle
SpecShadow == InitShadow /\ [][ShadowNext]_vars

InitManifest == ManifestInit /\ EmbIdle /\ RankIdle /\ TrackIdle /\ ServerIdle /\ CallIdle /\ ClusterIdle /\ HierIdle /\ LoadIdle /\ IdentIdle /\ LiveIdle
SpecManifest == InitManifest /\ [][ManifestNext]_vars

InitIdent == IdentInit /\ EmbIdle /\ RankIdle /\ TrackIdle /\ ServerIdle /\ CallIdle /\ ClusterIdle /\ HierIdle /\ LoadIdle /\ ShadowIdle /\ LiveIdle
SpecIdent == InitIdent /\ [][IdentNext]_vars

InitLive ==
    /\ EmbIdle /\ RankIdle /\ TrackIdle /\ ServerIdle /\ CallIdle /\ ClusterIdle /\ HierIdle
    /\ LoadIdle /\ ShadowIdle /\ IdentIdle
    /\ LiveInit

SpecLive == InitLive /\ [][LiveNext]_vars

InitLiveClock ==
    /\ EmbIdle /\ RankIdle /\ TrackIdle /\ ServerIdle /\ CallIdle /\ ClusterIdle /\ HierIdle
    /\ LoadIdle /\ ShadowIdle /\ IdentIdle
    /\ LiveClockInit

SpecLiveClock == InitLiveClock /\ [][LiveClockNext]_vars

SpecLiveSeq == InitLive /\ [][LiveSeqNext]_vars

====
